---- MODULE Spec2Model ----
(***************************************************************************)
(* A model of the mini-mam API gateway (src/src/api-gateway/app.py) and of *)
(* the shared authentication library (src/src/shared/auth.py): the rate    *)
(* limiter configured at start-up, the bearer-token check, token issuance  *)
(* and verification, and the proxy to the backend services.                *)
(***************************************************************************)
EXTENDS Integers, Sequences, FiniteSets, TLC

VARIABLES
    now,          \* the wall clock (time.time() / datetime.utcnow()), in ticks
    ticks,        \* how many times the clock has advanced
    storage,      \* limiter storage: key -> hits counted in the key's window
    expirations,  \* limiter storage: key -> the time the key's window ends
    req,          \* the inbound request handled last
    resp,         \* the response given to it
    stages,       \* the pipeline stages that request went through, in order
    calls,        \* the outbound backend calls made on its behalf, in order
    winStart,     \* observer: (client, route) -> time of the first request of the window
    winSeen,      \* observer: (client, route) -> requests seen in that window
    assets,       \* assets service: the assets table, row id -> row
    files,        \* files service: the files table, row id -> row
    transcodes,   \* transcode service: the transcodes table, row id -> row
    threads,      \* backend services: handlers and workers in flight, by thread
    answer        \* backend services: the response given last

gatewayVars == <<now, ticks, storage, expirations, req, resp, stages, calls,
                 winStart, winSeen>>

backendVars == <<assets, files, transcodes, threads, answer>>

vars == <<gatewayVars, backendVars>>

(***************************************************************************)
(* Bounds of the model.                                                    *)
(***************************************************************************)
TicksPerMinute == 2   \* clock resolution: ticks in a minute
MaxTicks == 2         \* clock advances in a behaviour
MaxOver == 1          \* requests a client sends beyond a route's quota
MaxColdHits == 1      \* requests sent to a (client, route) outside the burst

Minute == TicksPerMinute
Hour == 60 * Minute
Day == 24 * Hour

(***************************************************************************)
(* shared/auth.py: the credential store.                                   *)
(***************************************************************************)
ADMIN_PASSWORD == "admin123"
USER_PASSWORD == "user123"

\* werkzeug's salted hash, as what check_password_hash can tell of it: the
\* password it was made from.
generate_password_hash(password) == <<"pbkdf2", password>>

check_password_hash(pwhash, password) == pwhash = <<"pbkdf2", password>>

HARDCODED_USERS ==
    [admin |-> [password_hash |-> generate_password_hash(ADMIN_PASSWORD),
                role |-> "admin", user_id |-> 1],
     user  |-> [password_hash |-> generate_password_hash(USER_PASSWORD),
                role |-> "user", user_id |-> 2]]

\* Python's None.
None == [none |-> TRUE]

\* str.lower() of the user names there are.
lower(username) ==
    CASE username = "Admin" -> "admin"
      [] username = "USER" -> "user"
      [] OTHER -> username

\* authenticate_user that looks the user name up without regard to case.
authenticate_user_casefold(username, password) ==
    IF lower(username) \notin DOMAIN HARDCODED_USERS
    THEN None
    ELSE LET user == HARDCODED_USERS[lower(username)]
         IN  IF check_password_hash(user.password_hash, password)
             THEN [user_id |-> user.user_id, username |-> username,
                   role |-> user.role]
             ELSE None

authenticate_user(username, password) ==
    IF username \notin DOMAIN HARDCODED_USERS
    THEN None
    ELSE LET user == HARDCODED_USERS[username]
         IN  IF check_password_hash(user.password_hash, password)
             THEN [user_id |-> user.user_id, username |-> username,
                   role |-> user.role]
             ELSE None

(***************************************************************************)
(* shared/auth.py: tokens.  A token is the JWS serialisation of a payload: *)
(* its claims and an HMAC of them under the signing key.  The HMAC is      *)
(* modelled by the pair (key, claims): it matches exactly when both the    *)
(* key and the signed claims are the same.                                 *)
(***************************************************************************)
JWT_SECRET_KEY == "your-super-secret-jwt-key-change-in-production"

get_jwt_secret == JWT_SECRET_KEY

TokenLifetimeHours == 24

HS256(key, payload) == <<key, payload>>

jwt_encode(payload, key) ==
    [fmt |-> "jws", payload |-> payload, sig |-> HS256(key, payload)]

\* generate_token that gives every token the role of an ordinary user.
generate_token_plain_role(user_id, username, role, t1, t2) ==
    jwt_encode([user_id |-> user_id, username |-> username, role |-> "user",
                exp |-> t1 + TokenLifetimeHours * Hour, iat |-> t2],
               get_jwt_secret)

\* generate_token reads the clock twice: t1 for exp, t2 for iat.
generate_token_at(user_id, username, role, t1, t2) ==
    jwt_encode([user_id |-> user_id, username |-> username, role |-> role,
                exp |-> t1 + TokenLifetimeHours * Hour, iat |-> t2],
               get_jwt_secret)

\* jwt.decode that still accepts a token at the very time of its exp.
jwt_decode_late(token, key, t) ==
    IF token.fmt # "jws"
    THEN [ok |-> FALSE, error |-> "DecodeError"]
    ELSE IF token.sig # HS256(key, token.payload)
    THEN [ok |-> FALSE, error |-> "InvalidSignatureError"]
    ELSE IF token.payload.exp < t
    THEN [ok |-> FALSE, error |-> "ExpiredSignatureError"]
    ELSE [ok |-> TRUE, payload |-> token.payload]

\* jwt.decode that compares exp with the clock before it verifies the signature.
jwt_decode_exp_first(token, key, t) ==
    IF token.fmt # "jws"
    THEN [ok |-> FALSE, error |-> "DecodeError"]
    ELSE IF token.payload.exp <= t
    THEN [ok |-> FALSE, error |-> "ExpiredSignatureError"]
    ELSE IF token.sig # HS256(key, token.payload)
    THEN [ok |-> FALSE, error |-> "InvalidSignatureError"]
    ELSE [ok |-> TRUE, payload |-> token.payload]

\* jwt.decode(token, key, algorithms=['HS256']): the segments are parsed, the
\* signature is verified, and only then is exp compared with the clock.
jwt_decode(token, key, t) ==
    IF token.fmt # "jws"
    THEN [ok |-> FALSE, error |-> "DecodeError"]
    ELSE IF token.sig # HS256(key, token.payload)
    THEN [ok |-> FALSE, error |-> "InvalidSignatureError"]
    ELSE IF token.payload.exp <= t
    THEN [ok |-> FALSE, error |-> "ExpiredSignatureError"]
    ELSE [ok |-> TRUE, payload |-> token.payload]

\* The line of verify_token that returns, for a token verified at time t.
verify_token_branch(token, t) ==
    LET d == jwt_decode(token, get_jwt_secret, t)
    IN  IF d.ok THEN "return payload"
        ELSE IF d.error = "ExpiredSignatureError"
        THEN "except jwt.ExpiredSignatureError"
        ELSE "except jwt.InvalidTokenError"

verify_token(token, t) ==
    LET d == jwt_decode(token, get_jwt_secret, t)
    IN  IF d.ok THEN d.payload
        ELSE IF d.error = "ExpiredSignatureError" THEN None
        ELSE None

(***************************************************************************)
(* shared/auth.py: the Authorization header.  A header value is kept as    *)
(* its first seven characters (scheme) and the rest.                       *)
(***************************************************************************)
EmptyToken == [fmt |-> "empty"]

NoHeader == [present |-> FALSE, scheme |-> "", rest |-> EmptyToken]

Header(scheme, rest) == [present |-> TRUE, scheme |-> scheme, rest |-> rest]

\* `not x` of Python for a header value or a token string.
Falsy(token) == token = None \/ token = EmptyToken

\* get_token_from_header that drops the first seven characters of any header.
get_token_any_scheme(h) ==
    IF ~h.present \/ (h.scheme = "" /\ h.rest = EmptyToken)
    THEN None
    ELSE h.rest

get_token_from_header(h) ==
    IF ~h.present \/ (h.scheme = "" /\ h.rest = EmptyToken)
    THEN None
    ELSE IF h.scheme = "Bearer " THEN h.rest
    ELSE None

(***************************************************************************)
(* api-gateway/app.py: the rate limiter.  Limiter(app, key_func =          *)
(* get_remote_address, default_limits = ...) keeps, in process memory and  *)
(* with the fixed-window strategy, one counter per (client address,        *)
(* endpoint, limit): the window opens at the first hit and the counter is  *)
(* dropped once the window has run out.                                    *)
(***************************************************************************)
Clients == {"10.0.0.1", "10.0.0.2"}

Services == {"assets", "files", "transcode", "search"}

ProxyEndpoint(service) ==
    CASE service = "assets" -> "assets_proxy"
      [] service = "files" -> "files_proxy"
      [] service = "transcode" -> "transcode_proxy"
      [] service = "search" -> "search_proxy"

ProxyEndpoints == {ProxyEndpoint(s) : s \in Services}

Endpoints ==
    {"health_check", "metrics", "login", "verify_token", "get_current_user",
     "service_status"} \cup ProxyEndpoints

Limit(amount, per) == [amount |-> amount, per |-> per]

default_limits == <<Limit(200, Day), Limit(50, Hour)>>

\* The limits of @limiter.limit on the endpoint's view, <<>> when it has none.
DecoratedLimits(e) ==
    CASE e = "login" -> <<Limit(10, Minute)>>
      [] e = "verify_token" -> <<Limit(100, Minute)>>
      [] e = "get_current_user" -> <<Limit(100, Minute)>>
      [] e = "assets_proxy" -> <<Limit(100, Minute)>>
      [] e = "files_proxy" -> <<Limit(50, Minute)>>
      [] e = "transcode_proxy" -> <<Limit(30, Minute)>>
      [] e = "search_proxy" -> <<Limit(200, Minute)>>
      [] e = "service_status" -> <<Limit(50, Minute)>>
      [] OTHER -> <<>>

\* The limiter checks the limits of a request shortest window first.
RECURSIVE SortedByWindow(_)
SortedByWindow(lims) ==
    IF lims = <<>> THEN <<>>
    ELSE LET i == CHOOSE j \in 1..Len(lims) :
                      \A k \in 1..Len(lims) : lims[j].per <= lims[k].per
             rest == [k \in 1..(Len(lims) - 1) |->
                        IF k < i THEN lims[k] ELSE lims[k + 1]]
         IN  <<lims[i]>> \o SortedByWindow(rest)

\* A decorated view has its own limits instead of the default ones; a view
\* without a decorator (health_check, metrics) has the default ones.
RouteLimitsOf ==
    [e \in Endpoints |->
        SortedByWindow(IF DecoratedLimits(e) # <<>> THEN DecoratedLimits(e)
                       ELSE default_limits)]

RouteLimits(e) == RouteLimitsOf[e]

\* A dict with key k set to v.
Put(dict, k, v) == [x \in DOMAIN dict \cup {k} |-> IF x = k THEN v ELSE dict[x]]

\* A dict without the keys of `gone`.
Drop(dict, gone) == [x \in DOMAIN dict \ gone |-> dict[x]]

\* A hit that leaves the counter as it is once the amount is reached.
hit_not_counted_over(S, k, lim, t) ==
    LET live == k \in DOMAIN S.expirations /\ S.expirations[k] > t
        count == IF live THEN S.storage[k] + 1 ELSE 1
        expiry == IF live THEN S.expirations[k] ELSE t + lim.per
    IN  [storage |-> Put(S.storage, k, IF count > lim.amount THEN lim.amount ELSE count),
         expirations |-> Put(S.expirations, k, expiry),
         ok |-> count <= lim.amount]

\* A hit that is within the limit only while the counter is below the amount.
hit_below(S, k, lim, t) ==
    LET live == k \in DOMAIN S.expirations /\ S.expirations[k] > t
        count == IF live THEN S.storage[k] + 1 ELSE 1
        expiry == IF live THEN S.expirations[k] ELSE t + lim.per
    IN  [storage |-> Put(S.storage, k, count),
         expirations |-> Put(S.expirations, k, expiry),
         ok |-> count < lim.amount]

\* One hit of the fixed-window limiter on key k at time t: an expired
\* counter is dropped, the counter is incremented, the first hit of a
\* window sets its end, and the hit is within the limit when the counter
\* does not exceed the amount.
hit(S, k, lim, t) ==
    LET live == k \in DOMAIN S.expirations /\ S.expirations[k] > t
        count == IF live THEN S.storage[k] + 1 ELSE 1
        expiry == IF live THEN S.expirations[k] ELSE t + lim.per
    IN  [storage |-> Put(S.storage, k, count),
         expirations |-> Put(S.expirations, k, expiry),
         ok |-> count <= lim.amount]

\* The limits of endpoint e are hit in order for client c, from limit i on,
\* and the first one exceeded ends the evaluation: the request is limited.
RECURSIVE EvaluateLimits(_, _, _, _, _)
EvaluateLimits(S, c, e, i, t) ==
    IF i > Len(RouteLimits(e))
    THEN [storage |-> S.storage, expirations |-> S.expirations, limited |-> FALSE]
    ELSE LET h == hit(S, <<c, e, i>>, RouteLimits(e)[i], t)
         IN  IF ~h.ok
             THEN [storage |-> h.storage, expirations |-> h.expirations,
                   limited |-> TRUE]
             ELSE EvaluateLimits(h, c, e, i + 1, t)

\* The limiter with a key function that gives every client the same key.
check_request_limit_one_key(st, ex, c, e, t) ==
    EvaluateLimits([storage |-> st, expirations |-> ex], "10.0.0.1", e, 1, t)

check_request_limit(st, ex, c, e, t) ==
    EvaluateLimits([storage |-> st, expirations |-> ex], c, e, 1, t)

(***************************************************************************)
(* api-gateway/app.py: the routes.  An inbound request is                  *)
(*   [client, method, path, subpath, authorization, content_type, body,    *)
(*    args]                                                                *)
(* where path is the rule's fixed part and subpath what follows it.         *)
(***************************************************************************)
NoSubpath == [form |-> "none", value |-> ""]

TrailingSlash == [form |-> "slash", value |-> ""]

Subpath(value) == [form |-> "path", value |-> value]

\* The body of a request: absent, not parseable, the JSON null, or a JSON
\* object with the keys it has.
NoBody == [kind |-> "absent"]

MalformedBody == [kind |-> "malformed"]

NullBody == [kind |-> "null"]

JsonObject(keys, username, password) ==
    [kind |-> "object", keys |-> keys, username |-> username, password |-> password]

NoContentType == "(absent)"

SERVICES ==
    [assets |-> "http://localhost:8001", files |-> "http://localhost:8002",
     transcode |-> "http://localhost:8003", search |-> "http://localhost:8004"]

\* The order in which the SERVICES dict is iterated.
ServiceOrder == <<"assets", "files", "transcode", "search">>

ProxyPath(service) ==
    CASE service = "assets" -> "/api/assets"
      [] service = "files" -> "/api/files"
      [] service = "transcode" -> "/api/transcode"
      [] service = "search" -> "/api/search"

ServiceOfPath(path) == CHOOSE s \in Services : ProxyPath(s) = path

ProxyPaths == {ProxyPath(s) : s \in Services}

Rule(endpoint, methods) == [endpoint |-> endpoint, methods |-> methods]

\* url_map whose proxy rules with a sub-path take GET and POST only.
url_map_get_post_only(path, subpath) ==
    IF path \in ProxyPaths
    THEN Rule(ProxyEndpoint(ServiceOfPath(path)), {"GET", "POST"})
    ELSE IF subpath.form # "none" THEN None
    ELSE CASE path = "/health" -> Rule("health_check", {"GET"})
           [] path = "/metrics" -> Rule("metrics", {"GET"})
           [] path = "/auth/login" -> Rule("login", {"POST"})
           [] path = "/auth/verify" -> Rule("verify_token", {"POST"})
           [] path = "/auth/me" -> Rule("get_current_user", {"GET"})
           [] path = "/api/status" -> Rule("service_status", {"GET"})
           [] OTHER -> None

\* The @app.route rules: the rule a URL matches, None when it matches none.
url_map(path, subpath) ==
    IF path \in ProxyPaths
    THEN IF subpath.form # "path"
         THEN Rule(ProxyEndpoint(ServiceOfPath(path)), {"GET", "POST"})
         ELSE Rule(ProxyEndpoint(ServiceOfPath(path)),
                   {"GET", "POST", "PUT", "DELETE"})
    ELSE IF subpath.form # "none" THEN None
    ELSE CASE path = "/health" -> Rule("health_check", {"GET"})
           [] path = "/metrics" -> Rule("metrics", {"GET"})
           [] path = "/auth/login" -> Rule("login", {"POST"})
           [] path = "/auth/verify" -> Rule("verify_token", {"POST"})
           [] path = "/auth/me" -> Rule("get_current_user", {"GET"})
           [] path = "/api/status" -> Rule("service_status", {"GET"})
           [] OTHER -> None

\* Flask adds HEAD to a rule that has GET, and answers OPTIONS itself.
RuleMethods(rule) ==
    rule.methods \cup (IF "GET" \in rule.methods THEN {"HEAD"} ELSE {})
                 \cup {"OPTIONS"}

\* The views decorated with @require_auth.
RequiresAuth(e) ==
    e \in {"verify_token", "get_current_user", "service_status"} \cup ProxyEndpoints

Response(status, body) == [status |-> status, body |-> body]

\* require_auth that lets only the admin role through, as a role guard does.
require_auth_admin_only(h, t) ==
    LET token == get_token_from_header(h)
    IN  IF Falsy(token)
        THEN [passed |-> FALSE,
              response |-> Response(401, [error |-> "Authentication required",
                                          message |-> "No token provided"])]
        ELSE LET payload == verify_token(token, t)
             IN  IF payload = None
                 THEN [passed |-> FALSE,
                       response |-> Response(401,
                           [error |-> "Authentication failed",
                            message |-> "Invalid or expired token"])]
                 ELSE IF payload.role # "admin"
                 THEN [passed |-> FALSE,
                       response |-> Response(403,
                           [error |-> "Insufficient permissions",
                            message |-> "Role admin required"])]
                 ELSE [passed |-> TRUE, user |-> payload]

(***************************************************************************)
(* shared/auth.py: require_auth.  The outcome of the decorator for a       *)
(* request with Authorization header h at time t: the 401 it answers, or   *)
(* the payload it puts in request.user before it calls the view.           *)
(***************************************************************************)
require_auth(h, t) ==
    LET token == get_token_from_header(h)
    IN  IF Falsy(token)
        THEN [passed |-> FALSE,
              response |-> Response(401, [error |-> "Authentication required",
                                          message |-> "No token provided"])]
        ELSE LET payload == verify_token(token, t)
             IN  IF payload = None
                 THEN [passed |-> FALSE,
                       response |-> Response(401,
                           [error |-> "Authentication failed",
                            message |-> "Invalid or expired token"])]
                 ELSE [passed |-> TRUE, user |-> payload]

(***************************************************************************)
(* api-gateway/app.py: the views.  A view's result is its response, the    *)
(* outbound calls it made, and the token it issued (EmptyToken: none).     *)
(***************************************************************************)
ViewResult(response, made, issued) ==
    [response |-> response, calls |-> made, issued |-> issued]

health_check ==
    ViewResult(Response(200, [status |-> "healthy", service |-> "api-gateway",
                              timestamp |-> "2024-01-01T00:00:00Z"]),
               <<>>, EmptyToken)

metrics ==
    ViewResult(Response(200, [metrics |-> "generate_latest"]), <<>>, EmptyToken)

\* request.get_json(): the parsed body; it raises when the content type is
\* not JSON or the body does not parse.
get_json(r) ==
    IF r.content_type # "application/json" \/ r.body.kind \in {"absent", "malformed"}
    THEN [raised |-> TRUE]
    ELSE [raised |-> FALSE, data |-> IF r.body.kind = "null" THEN None ELSE r.body]

\* POST /auth/login at time t, the clock advancing by drift between the two
\* clock readings of generate_token.
login(r, t, drift) ==
    LET j == get_json(r)
    IN  IF j.raised
        THEN ViewResult(Response(500, [error |-> "Internal server error",
                                       message |-> "An error occurred during login"]),
                        <<>>, EmptyToken)
        ELSE IF j.data = None \/ j.data.keys = {}
                \/ "username" \notin j.data.keys \/ "password" \notin j.data.keys
        THEN ViewResult(Response(400, [error |-> "Missing credentials",
                                       message |-> "Username and password are required"]),
                        <<>>, EmptyToken)
        ELSE LET user == authenticate_user(j.data.username, j.data.password)
             IN  IF user = None
                 THEN ViewResult(Response(401,
                                     [error |-> "Authentication failed",
                                      message |-> "Invalid username or password"]),
                                 <<>>, EmptyToken)
                 ELSE LET token == generate_token_at(user.user_id, user.username,
                                                     user.role, t, t + drift)
                      IN  ViewResult(Response(200,
                                         [message |-> "Login successful",
                                          token |-> token,
                                          user |-> [user_id |-> user.user_id,
                                                    username |-> user.username,
                                                    role |-> user.role]]),
                                     <<>>, token)

verify_token_view(user) ==
    ViewResult(Response(200, [message |-> "Token is valid", user |-> user]),
               <<>>, EmptyToken)

get_current_user(user) ==
    ViewResult(Response(200, [user |-> user]), <<>>, EmptyToken)

(***************************************************************************)
(* api-gateway/app.py: proxy_request.  What the backend does with the one  *)
(* outbound call is an input: it answers with a response, or it cannot be  *)
(* connected to (requests raises ConnectionError), or the call fails in    *)
(* another way (another exception), or the backend takes the connection    *)
(* and never answers.                                                      *)
(***************************************************************************)
BackendResponse(status, content) ==
    [kind |-> "response", status |-> status, content |-> content,
     headers |-> [server |-> "backend"]]

BackendConnectionError == [kind |-> "ConnectionError"]

BackendOtherError == [kind |-> "RequestException"]

BackendSilent == [kind |-> "silent"]

\* The timeout of a call that passes none: requests then waits without end.
NoTimeout == 0

\* What a call of requests.get/post/put/delete comes to, given what the
\* backend does and the timeout passed: the backend's response, the
\* exception raised, or "blocked" when the call never returns.  A backend
\* that does not answer makes the call raise Timeout once the timeout has
\* passed, when there is one.
requests_request(backend, timeout) ==
    IF backend.kind = "silent"
    THEN IF timeout = NoTimeout THEN [kind |-> "blocked"] ELSE [kind |-> "Timeout"]
    ELSE backend

\* str(n) of the user ids there are.
str(n) == CASE n = 1 -> "1" [] n = 2 -> "2" [] OTHER -> "?"

\* target_url that leaves the sub-path out.
target_url_no_subpath(service_name, subpath) ==
    <<SERVICES[service_name], "/api/", service_name>>

target_url(service_name, subpath) ==
    IF subpath.form = "path"
    THEN <<SERVICES[service_name], "/api/", service_name, "/", subpath.value>>
    ELSE <<SERVICES[service_name], "/api/", service_name>>

\* proxy_headers that starts from a copy of the inbound headers.
proxy_headers_copy_inbound(r, user) ==
    [Content_Type |-> IF r.content_type = NoContentType THEN "application/json"
                      ELSE r.content_type,
     Authorization |-> IF r.authorization.present THEN r.authorization ELSE Header("", EmptyToken),
     User_Agent |-> "API-Gateway",
     X_User_ID |-> str(user.user_id),
     X_Username |-> user.username,
     X_User_Role |-> user.role]
    @@ (IF "headers" \in DOMAIN r THEN r.headers ELSE <<>>)

proxy_headers(r, user) ==
    [Content_Type |-> IF r.content_type = NoContentType THEN "application/json"
                      ELSE r.content_type,
     Authorization |-> IF r.authorization.present THEN r.authorization ELSE Header("", EmptyToken),
     User_Agent |-> "API-Gateway",
     X_User_ID |-> str(user.user_id),
     X_Username |-> user.username,
     X_User_Role |-> user.role]

\* An outbound call, with what the backend did with it.
OutboundCall(method, url, headers, payload, timeout, backend) ==
    [method |-> method, url |-> url, headers |-> headers, payload |-> payload,
     timeout |-> timeout, backend |-> backend]

\* relay that puts the text of the exception in the body of its 500.
relay_leaking(service_name, backend) ==
    LET outcome == requests_request(backend, NoTimeout)
    IN  IF outcome.kind = "response"
        THEN Response(outcome.status, [content |-> outcome.content,
                                       headers |-> outcome.headers])
        ELSE IF outcome.kind = "blocked"
        THEN Response(0, None)
        ELSE IF outcome.kind = "ConnectionError"
        THEN Response(503, [error |-> <<service_name, " service unavailable">>])
        ELSE Response(500, [error |-> outcome.kind])

\* relay that answers a backend's server error with a 502 of the gateway.
relay_masking_errors(service_name, backend) ==
    LET outcome == requests_request(backend, NoTimeout)
    IN  IF outcome.kind = "response"
        THEN IF outcome.status >= 500
             THEN Response(502, [error |-> "Bad gateway"])
             ELSE Response(outcome.status, [content |-> outcome.content,
                                            headers |-> outcome.headers])
        ELSE IF outcome.kind = "blocked"
        THEN Response(0, None)
        ELSE IF outcome.kind = "ConnectionError"
        THEN Response(503, [error |-> <<service_name, " service unavailable">>])
        ELSE Response(500, [error |-> "Internal server error"])

\* The response of proxy_request once the outbound call has been made; no
\* response (status 0) while the call does not return.
relay(service_name, backend) ==
    LET outcome == requests_request(backend, NoTimeout)
    IN  IF outcome.kind = "response"
        THEN Response(outcome.status, [content |-> outcome.content,
                                       headers |-> outcome.headers])
        ELSE IF outcome.kind = "blocked"
        THEN Response(0, None)
        ELSE IF outcome.kind = "ConnectionError"
        THEN Response(503, [error |-> <<service_name, " service unavailable">>])
        ELSE Response(500, [error |-> "Internal server error"])

\* proxy_request that forwards whatever method the request has.
proxy_request_any_method(service_name, r, user, backend) ==
    LET url == target_url(service_name, r.subpath)
        headers == proxy_headers(r, user)
        j == get_json(r)
    IN  IF r.method = "GET"
        THEN ViewResult(relay(service_name, backend),
                        <<OutboundCall("GET", url, headers, [params |-> r.args],
                                       NoTimeout, backend)>>,
                        EmptyToken)
        ELSE IF r.method \in {"POST", "PUT"}
        THEN IF j.raised
             THEN ViewResult(Response(500, [error |-> "Internal server error"]),
                             <<>>, EmptyToken)
             ELSE ViewResult(relay(service_name, backend),
                             <<OutboundCall(r.method, url, headers, [json |-> j.data],
                                            NoTimeout, backend)>>,
                             EmptyToken)
        ELSE IF r.method = "DELETE"
        THEN ViewResult(relay(service_name, backend),
                        <<OutboundCall("DELETE", url, headers, None,
                                       NoTimeout, backend)>>,
                        EmptyToken)
        ELSE ViewResult(relay(service_name, backend),
                        <<OutboundCall(r.method, url, headers, None,
                                       NoTimeout, backend)>>,
                        EmptyToken)

proxy_request(service_name, r, user, backend) ==
    LET url == target_url(service_name, r.subpath)
        headers == proxy_headers(r, user)
        j == get_json(r)
    IN  IF r.method = "GET"
        THEN ViewResult(relay(service_name, backend),
                        <<OutboundCall("GET", url, headers, [params |-> r.args],
                                       NoTimeout, backend)>>,
                        EmptyToken)
        ELSE IF r.method \in {"POST", "PUT"}
        THEN IF j.raised
             THEN ViewResult(Response(500, [error |-> "Internal server error"]),
                             <<>>, EmptyToken)
             ELSE ViewResult(relay(service_name, backend),
                             <<OutboundCall(r.method, url, headers, [json |-> j.data],
                                            NoTimeout, backend)>>,
                             EmptyToken)
        ELSE IF r.method = "DELETE"
        THEN ViewResult(relay(service_name, backend),
                        <<OutboundCall("DELETE", url, headers, None,
                                       NoTimeout, backend)>>,
                        EmptyToken)
        ELSE ViewResult(Response(405, [error |-> "Method not allowed"]),
                        <<>>, EmptyToken)

(***************************************************************************)
(* api-gateway/app.py: service_status.  probes[s] is what service s does   *)
(* with its health probe, as for a proxied call.                           *)
(***************************************************************************)
ProbeTimeout == 5

\* The entry of a service whose probe came to `outcome`; no entry ("blocked")
\* while the probe does not return.
probe_entry(outcome) ==
    IF outcome.kind = "response"
    THEN [status |-> IF outcome.status = 200 THEN "healthy" ELSE "unhealthy",
          response_time |-> "elapsed"]
    ELSE IF outcome.kind = "blocked"
    THEN [status |-> "blocked"]
    ELSE [status |-> "unavailable", error |-> outcome.kind]

\* The probes made until one does not return: all of them, when all return.
ProbesMade(outcomes) ==
    IF \E i \in 1..Len(ServiceOrder) : outcomes[ServiceOrder[i]].kind = "blocked"
    THEN CHOOSE i \in 1..Len(ServiceOrder) :
            /\ outcomes[ServiceOrder[i]].kind = "blocked"
            /\ \A j \in 1..(i - 1) : outcomes[ServiceOrder[j]].kind # "blocked"
    ELSE Len(ServiceOrder)

\* service_status that gives up at the first probe that raises.
service_status_abort(probes) ==
    LET outcomes == [s \in Services |-> requests_request(probes[s], ProbeTimeout)]
        raised == {i \in 1..Len(ServiceOrder) :
                      outcomes[ServiceOrder[i]].kind # "response"}
        made == IF raised = {} THEN Len(ServiceOrder)
                ELSE CHOOSE i \in raised : \A j \in raised : i <= j
    IN  ViewResult(
            IF raised # {}
            THEN Response(500, [error |-> "Internal server error"])
            ELSE Response(200, [gateway |-> "healthy",
                                services |-> [s \in Services |-> probe_entry(outcomes[s])]]),
            [i \in 1..made |->
                OutboundCall("GET", <<SERVICES[ServiceOrder[i]], "/health">>,
                             None, None, ProbeTimeout, probes[ServiceOrder[i]])],
            EmptyToken)

\* service_status whose probes pass no timeout.
service_status_no_timeout(probes) ==
    LET outcomes == [s \in Services |-> requests_request(probes[s], NoTimeout)]
        made == ProbesMade(outcomes)
    IN  ViewResult(
            IF \E s \in Services : outcomes[s].kind = "blocked"
            THEN Response(0, None)
            ELSE Response(200, [gateway |-> "healthy",
                                services |-> [s \in Services |-> probe_entry(outcomes[s])]]),
            [i \in 1..made |->
                OutboundCall("GET", <<SERVICES[ServiceOrder[i]], "/health">>,
                             None, None, NoTimeout, probes[ServiceOrder[i]])],
            EmptyToken)

service_status(probes) ==
    LET outcomes == [s \in Services |-> requests_request(probes[s], ProbeTimeout)]
        made == ProbesMade(outcomes)
    IN  ViewResult(
            IF \E s \in Services : outcomes[s].kind = "blocked"
            THEN Response(0, None)
            ELSE Response(200, [gateway |-> "healthy",
                                services |-> [s \in Services |-> probe_entry(outcomes[s])]]),
            [i \in 1..made |->
                OutboundCall("GET", <<SERVICES[ServiceOrder[i]], "/health">>,
                             None, None, ProbeTimeout, probes[ServiceOrder[i]])],
            EmptyToken)

(***************************************************************************)
(* The gateway handling one inbound request r, from routing to response.   *)
(* env is what the world does meanwhile: env.backend answers the proxied   *)
(* call, env.probes the health probes, env.drift is how far the clock      *)
(* moves between the two clock readings of generate_token.                 *)
(***************************************************************************)
NoRequest == [client |-> "", method |-> "", path |-> ""]

NoResponse == Response(0, [none |-> TRUE])

Request(client, method, path, subpath, authorization, content_type, body, args) ==
    [client |-> client, method |-> method, path |-> path, subpath |-> subpath,
     authorization |-> authorization, content_type |-> content_type,
     body |-> body, args |-> args]

Env(backend, probes, drift) == [backend |-> backend, probes |-> probes, drift |-> drift]

\* The view function of endpoint e called for request r of user `user`.
View(e, r, user, env, t) ==
    CASE e = "health_check" -> health_check
      [] e = "metrics" -> metrics
      [] e = "login" -> login(r, t, env.drift)
      [] e = "verify_token" -> verify_token_view(user)
      [] e = "get_current_user" -> get_current_user(user)
      [] e = "service_status" -> service_status(env.probes)
      [] OTHER -> proxy_request(ServiceOfPath(r.path), r, user, env.backend)

\* The pipeline with require_auth applied outside the limiter.
Pipeline_auth_first(e, r, env, limited, t) ==
    LET auth == require_auth(r.authorization, t)
    IN  IF r.method = "OPTIONS"
        THEN [stages |-> <<"limiter", "automatic_options">>,
              result |-> ViewResult(Response(200, [allow |-> "methods"]),
                                    <<>>, EmptyToken)]
        ELSE IF RequiresAuth(e) /\ ~auth.passed
        THEN [stages |-> <<"limiter", "require_auth">>,
              result |-> ViewResult(auth.response, <<>>, EmptyToken)]
        ELSE IF limited
        THEN [stages |-> <<"limiter">>,
              result |-> ViewResult(Response(429, [error |-> "Too Many Requests"]),
                                    <<>>, EmptyToken)]
        ELSE [stages |-> <<"limiter", "require_auth", e>>,
              result |-> View(e, r, IF RequiresAuth(e) THEN auth.user ELSE None, env, t)]

\* The stages a request matched to endpoint e goes through, and its result:
\* the limiter first, then require_auth, then the view.
Pipeline(e, r, env, limited, t) ==
    LET auth == require_auth(r.authorization, t)
    IN  IF limited
        THEN [stages |-> <<"limiter">>,
              result |-> ViewResult(Response(429, [error |-> "Too Many Requests"]),
                                    <<>>, EmptyToken)]
        ELSE IF r.method = "OPTIONS"
        THEN [stages |-> <<"limiter", "automatic_options">>,
              result |-> ViewResult(Response(200, [allow |-> "methods"]),
                                    <<>>, EmptyToken)]
        ELSE IF ~RequiresAuth(e)
        THEN [stages |-> <<"limiter", e>>,
              result |-> View(e, r, None, env, t)]
        ELSE IF ~auth.passed
        THEN [stages |-> <<"limiter", "require_auth">>,
              result |-> ViewResult(auth.response, <<>>, EmptyToken)]
        ELSE [stages |-> <<"limiter", "require_auth", e>>,
              result |-> View(e, r, auth.user, env, t)]

\* The observer's count of the requests of client c matched to endpoint e:
\* a window opens at the first request and lasts for the period of the
\* route's limit.
Observe(c, e) ==
    LET W == RouteLimits(e)[1].per
        k == <<c, e>>
        fresh == k \notin DOMAIN winSeen \/ now >= winStart[k] + W
    IN  /\ winStart' = Put(winStart, k, IF fresh THEN now ELSE winStart[k])
        /\ winSeen' = Put(winSeen, k, IF fresh THEN 1 ELSE winSeen[k] + 1)

Serve(r, env) ==
    LET rule == url_map(r.path, r.subpath)
    IN  /\ req' = r
        /\ UNCHANGED backendVars
        /\ IF rule = None
           THEN /\ resp' = Response(404, [error |-> "Endpoint not found"])
                /\ stages' = <<"not_found">>
                /\ calls' = <<>>
                /\ UNCHANGED <<now, ticks, storage, expirations,
                               winStart, winSeen>>
           ELSE IF r.method \notin RuleMethods(rule)
           THEN /\ resp' = Response(405, [error |-> "Method Not Allowed"])
                /\ stages' = <<"method_not_allowed">>
                /\ calls' = <<>>
                /\ UNCHANGED <<now, ticks, storage, expirations,
                               winStart, winSeen>>
           ELSE LET lim == check_request_limit(storage, expirations, r.client,
                                               rule.endpoint, now)
                    p == Pipeline(rule.endpoint, r, env, lim.limited, now)
                    moved == IF p.result.issued # EmptyToken THEN env.drift ELSE 0
                IN  /\ storage' = lim.storage
                    /\ expirations' = lim.expirations
                    /\ Observe(r.client, rule.endpoint)
                    /\ resp' = p.result.response
                    /\ stages' = p.stages
                    /\ calls' = p.result.calls
                    /\ now' = now + moved
                    /\ ticks' = IF moved > 0 THEN ticks + 1 ELSE ticks

\* Time passes: the clock advances by d ticks, and the limiter's storage
\* drops the counters whose window has ended (its expiry timer); so does
\* the observer.  The exchange handled last is over.
AdvanceClock(d) ==
    /\ ticks < MaxTicks
    /\ UNCHANGED backendVars
    /\ now' = now + d
    /\ ticks' = ticks + 1
    /\ LET expired == {k \in DOMAIN expirations : expirations[k] <= now + d}
            closed == {k \in DOMAIN winStart :
                          now + d >= winStart[k] + RouteLimits(k[2])[1].per}
       IN  /\ storage' = Drop(storage, expired)
           /\ expirations' = Drop(expirations, expired)
           /\ winSeen' = Drop(winSeen, closed)
           /\ winStart' = Drop(winStart, closed)
    /\ req' = NoRequest
    /\ resp' = NoResponse
    /\ stages' = <<>>
    /\ calls' = <<>>

(***************************************************************************)
(* The clients.  What a client may present as a credential: a token the    *)
(* gateway issued at a login some time ago (to any address: a token is not *)
(* bound to one), used properly or not; such a token with changed claims   *)
(* and the old signature; a token signed with a key of the client's own;   *)
(* something that is no token; or nothing.                                 *)
(***************************************************************************)
Client1 == "10.0.0.1"

Client2 == "10.0.0.2"

LoginBodies ==
    {JsonObject({"username", "password"}, "admin", ADMIN_PASSWORD),
     JsonObject({"username", "password"}, "user", USER_PASSWORD),
     JsonObject({"username", "password"}, "admin", "wrongpassword")}

\* How long ago the tokens in circulation were issued.
TokenAges == {0, 1, Day - 1, Day, Day + 1}

\* The tokens generate_token has issued: to a user who authenticated, age
\* ticks ago, the clock moving by drift during the call.
IssuedTokens ==
    {generate_token_at(u.user_id, u.username, u.role, now - age - drift, now - age) :
        <<u, age, drift>> \in
            {x \in {authenticate_user(b.username, b.password) : b \in LoginBodies}
                   \X TokenAges \X (0..1) :
                x[1] # None /\ now - x[2] - x[3] >= 0}}

FreshTokens == {tk \in IssuedTokens : tk.payload.iat = now}

GarbageToken == [fmt |-> "garbage"]

Tampered(token) ==
    [token EXCEPT !.payload = [@ EXCEPT !.role = "admin", !.user_id = 1,
                                        !.exp = @ + Day]]

ForgedTokens ==
    {jwt_encode([user_id |-> 1, username |-> "admin", role |-> "admin",
                 exp |-> x, iat |-> 0], "attacker-key") : x \in {0, now + Day}}

BadHeaders ==
    {NoHeader, Header("", EmptyToken), Header("Basic ", GarbageToken),
     Header("Bearer ", EmptyToken), Header("Bearer ", GarbageToken)}
    \cup {Header("Bearer ", f) : f \in ForgedTokens}
    \cup {Header("Bearer ", Tampered(tk)) : tk \in FreshTokens}
    \cup {Header("bearer ", tk) : tk \in FreshTokens}

HeaderChoices == BadHeaders \cup {Header("Bearer ", tk) : tk \in IssuedTokens}

NoProbes == [s \in Services |-> BackendConnectionError]

\* The hits counted against client c on endpoint e in the window now open.
Hits(c, e) ==
    IF <<c, e, 1>> \in DOMAIN expirations /\ expirations[<<c, e, 1>>] > now
    THEN storage[<<c, e, 1>>] ELSE 0

Quota(e) == RouteLimits(e)[1].amount

\* The load the clients put on the gateway: a client sends a few requests
\* to a route, or goes on where it is about to exhaust the route's quota,
\* up to MaxOver requests beyond it; and it works one protected route at a
\* time.
MayRequest(c, e) ==
    /\ \/ Hits(c, e) < MaxColdHits
       \/ Hits(c, e) >= Quota(e) - 1 /\ Hits(c, e) < Quota(e) + MaxOver
    /\ RequiresAuth(e) => \A e2 \in Endpoints \ {e} : RequiresAuth(e2) => Hits(c, e2) = 0

LoginRequest(c, body, drift) ==
    /\ MayRequest(c, "login")
    /\ drift = 0 \/ ticks < MaxTicks
    /\ Serve(Request(c, "POST", "/auth/login", NoSubpath, NoHeader,
                     "application/json", body, {}),
             Env(BackendConnectionError, NoProbes, drift))

AuthRequest(c, method, path, h) ==
    /\ MayRequest(c, url_map(path, NoSubpath).endpoint)
    /\ Serve(Request(c, method, path, NoSubpath, h, NoContentType, NoBody, {}),
             Env(BackendConnectionError, NoProbes, 0))

ProxyRequest(c, method, service, subpath, h, body, backend) ==
    /\ MayRequest(c, ProxyEndpoint(service))
    /\ Serve(Request(c, method, ProxyPath(service), subpath, h,
                     "application/json", body, {}),
             Env(backend, NoProbes, 0))

StatusRequest(c, h, probes) ==
    /\ MayRequest(c, "service_status")
    /\ Serve(Request(c, "GET", "/api/status", NoSubpath, h, NoContentType, NoBody, {}),
             Env(BackendConnectionError, probes, 0))

PublicRequest(c, path) ==
    /\ MayRequest(c, url_map(path, NoSubpath).endpoint)
    /\ Serve(Request(c, "GET", path, NoSubpath, NoHeader, NoContentType, NoBody, {}),
             Env(BackendConnectionError, NoProbes, 0))

\* The state after client c has sent `warm` requests to endpoint e at time 0.
Warmed(c, e, warm) ==
    /\ now = 0
    /\ ticks = 0
    /\ storage = [k \in {<<c, e, i>> : i \in 1..(IF warm > 0 THEN Len(RouteLimits(e)) ELSE 0)}
                     |-> warm]
    /\ expirations = [k \in {<<c, e, i>> : i \in 1..(IF warm > 0 THEN Len(RouteLimits(e)) ELSE 0)}
                         |-> RouteLimits(e)[k[3]].per]
    /\ winStart = [k \in {<<c, e>> : x \in 1..warm} |-> 0]
    /\ winSeen = [k \in {<<c, e>> : x \in 1..warm} |-> warm]
    /\ req = NoRequest
    /\ resp = NoResponse
    /\ stages = <<>>
    /\ calls = <<>>
    /\ assets = <<>>
    /\ files = <<>>
    /\ transcodes = <<>>
    /\ threads = <<>>
    /\ answer = None

(***************************************************************************)
(* SpecToken: users log in, and tokens of every age and make are presented *)
(* to POST /auth/verify and GET /auth/me, while the clock runs.  The       *)
(* client stays within the quotas of the two routes.                       *)
(***************************************************************************)
InitToken == Warmed(Client1, "login", 0)

NextToken ==
    \/ \E body \in LoginBodies, drift \in 0..1 : LoginRequest(Client1, body, drift)
    \/ \E h \in HeaderChoices : AuthRequest(Client1, "POST", "/auth/verify", h)
    \/ \E h \in HeaderChoices : AuthRequest(Client1, "GET", "/auth/me", h)
    \/ \E d \in {1, Day - 1, Day} : AdvanceClock(d)

SpecToken == InitToken /\ [][NextToken]_vars

(***************************************************************************)
(* Properties of the tokens (SpecToken).                                   *)
(***************************************************************************)
\* The tokens a request can carry at the present time.
TokenUniverse ==
    IssuedTokens \cup ForgedTokens \cup {Tampered(tk) : tk \in IssuedTokens}
    \cup {GarbageToken}

\* The request handled last went to POST /auth/verify or GET /auth/me and
\* was not stopped by the rate limiter.
AuthChecked ==
    /\ req.path \in {"/auth/verify", "/auth/me"}
    /\ stages # <<>>
    /\ stages # <<"limiter">>

\* The record of the credential store for a user name.
CredentialRecord(username) == HARDCODED_USERS[username]

SameIdentity(claims, username) ==
    /\ claims.username = username
    /\ claims.role = CredentialRecord(username).role
    /\ claims.user_id = CredentialRecord(username).user_id

\* C7: for every (username, password) pair of the credential store,
\* authenticate_user, then generate_token, then verify_token before expiry
\* gives claims whose user_id, username and role are those of the record;
\* the token of a login response verifies to the identity that logged in;
\* and /auth/verify and /auth/me, for a request within the route's quota,
\* answer 200 with exactly the claims of the presented token.
C7_RoundTrip ==
    /\ \A b \in LoginBodies, age \in TokenAges, drift \in 0..1 :
          LET id == authenticate_user(b.username, b.password)
              t2 == now - age
              tk == generate_token_at(id.user_id, id.username, id.role,
                                      t2 - drift, t2)
          IN  (id # None /\ t2 - drift >= 0 /\ now < tk.payload.exp) =>
                 /\ verify_token(tk, now) # None
                 /\ SameIdentity(verify_token(tk, now), b.username)
                 /\ (AuthChecked /\ req.authorization = Header("Bearer ", tk)) =>
                       /\ resp.status = 200
                       /\ resp.body.user = verify_token(tk, now)
                       /\ SameIdentity(resp.body.user, b.username)
    /\ (req.path = "/auth/login" /\ resp.status = 200) =>
          /\ verify_token(resp.body.token, now) # None
          /\ SameIdentity(verify_token(resp.body.token, now), req.body.username)
          /\ SameIdentity(resp.body.user, req.body.username)

\* C7 witness: a user token issued earlier is presented to /auth/me, which
\* answers with the user's claims.
C7_Witness ==
    /\ req.path = "/auth/me"
    /\ req.authorization.scheme = "Bearer "
    /\ req.authorization.rest \in IssuedTokens
    /\ req.authorization.rest.payload.iat < now
    /\ resp.status = 200
    /\ resp.body.user.role = "user"
    /\ resp.body.user.user_id = 2

\* A token's signature matches the signing secret.
SignatureMatches(tk) ==
    tk.fmt = "jws" /\ tk.sig = HS256(get_jwt_secret, tk.payload)

\* C8: at every time, verify_token accepts a token exactly when its
\* signature matches the signing secret and the time is before the token's
\* exp, however often it was verified before; a token is rejected at every
\* time from its exp on; and a protected route runs its view for a
\* presented token exactly in that case.
C8_ValidIff ==
    /\ \A tk \in TokenUniverse :
          /\ verify_token(tk, now) # None
                <=> (SignatureMatches(tk) /\ now < tk.payload.exp)
          /\ SignatureMatches(tk) =>
                \A later \in {0, 1, Day} :
                    verify_token(tk, tk.payload.exp + later) = None
    /\ (AuthChecked /\ req.authorization.scheme = "Bearer "
                    /\ req.authorization.rest # EmptyToken) =>
          (resp.status = 200
              <=> /\ SignatureMatches(req.authorization.rest)
                  /\ now < req.authorization.rest.payload.exp)

\* C8 witness: a token one tick short of its expiry is accepted.
C8_Witness ==
    /\ AuthChecked
    /\ req.authorization.scheme = "Bearer "
    /\ SignatureMatches(req.authorization.rest)
    /\ req.authorization.rest.payload.exp = now + 1
    /\ resp.status = 200

\* C9 (as claimed): what verify_token reports for an expired token signed
\* with the current secret differs from what it reports for a token with a
\* bad signature or a malformed one.
C9_ExpiredDistinguishable ==
    \A tk \in IssuedTokens :
        tk.payload.exp <= now =>
            \A bad \in ForgedTokens \cup {GarbageToken} :
                /\ verify_token(tk, now) # verify_token(bad, now)
                /\ require_auth(Header("Bearer ", tk), now)
                      # require_auth(Header("Bearer ", bad), now)

\* The tokens whose signature is not of the signing secret, or which are no
\* tokens at all.
BadTokens == {tk \in TokenUniverse : ~SignatureMatches(tk)}

ProtectedEndpoints == {e \in Endpoints : RequiresAuth(e)}

Init ==
    \E e \in ProtectedEndpoints, warm \in 0..1 :
        Warmed(Client1, e, warm * (Quota(e) - 1))

Backends == {BackendResponse(200, "ok"), BackendConnectionError}

ProxyForms ==
    {<<"GET", NoSubpath, NoBody>>,
     <<"POST", Subpath("42"), JsonObject({"name"}, "", "")>>}

Next ==
    \/ \E h \in HeaderChoices : AuthRequest(Client1, "POST", "/auth/verify", h)
    \/ \E h \in HeaderChoices : AuthRequest(Client1, "GET", "/auth/me", h)
    \/ \E s \in Services, f \in ProxyForms, h \in HeaderChoices, b \in Backends :
          ProxyRequest(Client1, f[1], s, f[2], h, f[3], b)
    \/ \E s \in Services, m \in {"OPTIONS", "PATCH"} :
          ProxyRequest(Client1, m, s, Subpath("42"), NoHeader, NoBody,
                       BackendConnectionError)
    \/ \E h \in HeaderChoices : StatusRequest(Client1, h, [s \in Services |-> BackendResponse(200, "ok")])
    \/ AdvanceClock(Day)

Spec == Init /\ [][Next]_vars

\* The request handled last matched the rule of endpoint e.
Matched(e) ==
    /\ req # NoRequest
    /\ url_map(req.path, req.subpath) # None
    /\ url_map(req.path, req.subpath).endpoint = e
    /\ req.method \in RuleMethods(url_map(req.path, req.subpath))

\* The Authorization header carries 'Bearer <token>' with a token that
\* verify_token accepts now.
ValidBearer(h) ==
    /\ h.present
    /\ h.scheme = "Bearer "
    /\ h.rest # EmptyToken
    /\ verify_token(h.rest, now) # None

\* The view of endpoint e ran for the request handled last.
ViewRan(e) == stages # <<>> /\ stages[Len(stages)] = e

\* C1: a request to a proxied route goes through the rate-limit check, then
\* the bearer-token check, then the proxy view, in this order: the request
\* over the quota is answered 429 whatever its credential, the request
\* with a bad credential is answered 401 after it was counted, and the
\* backend is called only when both checks have passed; a request answered
\* by the limiter or by the token check makes no outbound call.
C1_CheckOrder ==
    \A s \in Services :
        LET e == ProxyEndpoint(s)
            k == <<req.client, e, 1>>
        IN  (Matched(e) /\ req.method # "OPTIONS") =>
               /\ k \in DOMAIN storage /\ storage[k] >= 1
               /\ storage[k] > Quota(e) <=> stages = <<"limiter">>
               /\ stages \in {<<"limiter">>, <<"limiter", "require_auth">>,
                             <<"limiter", "require_auth", e>>}
               /\ stages = <<"limiter">> => resp.status = 429 /\ calls = <<>>
               /\ stages = <<"limiter", "require_auth">> =>
                     /\ resp.status = 401
                     /\ calls = <<>>
                     /\ ~ValidBearer(req.authorization)
               /\ calls # <<>> =>
                     /\ stages = <<"limiter", "require_auth", e>>
                     /\ storage[k] <= Quota(e)
                     /\ ValidBearer(req.authorization)

\* C1 witness: a request over the quota and without a credential is
\* answered 429, not 401, and no call is made.
C1_Witness ==
    /\ Matched("transcode_proxy")
    /\ req.authorization = NoHeader
    /\ storage[<<Client1, "transcode_proxy", 1>>] = Quota("transcode_proxy") + 1
    /\ resp.status = 429
    /\ calls = <<>>

\* The request handled last went to a bearer-protected route with a method
\* its view serves.
ToProtected ==
    \E e \in ProtectedEndpoints : Matched(e) /\ req.method # "OPTIONS"

LoginBurst(c, body) ==
    /\ Hits(c, "login") < Quota("login") + MaxOver
    /\ Serve(Request(c, "POST", "/auth/login", NoSubpath, NoHeader,
                     "application/json", body, {}),
             Env(BackendConnectionError, NoProbes, 0))

InitLimiter == Warmed(Client1, "login", 0)

NextLimiter ==
    \/ \E body \in {b \in LoginBodies : b.username = "admin"} : LoginBurst(Client1, body)
    \/ \E d \in {1, Minute} : AdvanceClock(d)

SpecLimiter == InitLimiter /\ [][NextLimiter]_vars

InitRoutes ==
    \E e \in {"login", "health_check", "metrics"}, warm \in 0..1 :
        Warmed(Client1, e, warm * (Quota(e) - 1))

NextRoutes ==
    \/ \E c \in Clients :
          LoginRequest(c, JsonObject({"username", "password"}, "user", USER_PASSWORD), 0)
    \/ \E path \in {"/health", "/metrics"} : PublicRequest(Client1, path)
    \/ AdvanceClock(Minute)

SpecRoutes == InitRoutes /\ [][NextRoutes]_vars

\* The request handled last was matched to a route and counted.
Counted == stages # <<>> /\ stages[1] = "limiter"

EndpointOfRequest == url_map(req.path, req.subpath).endpoint

\* The endpoints with one limit on their view.
SingleLimit == {e \in Endpoints : Len(DecoratedLimits(e)) = 1}

\* C3: on a route with quota N per window W, a request of a client is
\* answered 429 exactly when it is beyond the N-th of the client's requests
\* to the route in the window, a window opening at the first request and
\* lasting W: the (N+1)-th is rate-limited, and the first request made
\* once W has passed since the window's first request is allowed.
C3_Quota ==
    (Counted /\ EndpointOfRequest \in SingleLimit) =>
        LET k == <<req.client, EndpointOfRequest>>
            N == DecoratedLimits(EndpointOfRequest)[1].amount
            W == DecoratedLimits(EndpointOfRequest)[1].per
        IN  /\ k \in DOMAIN winSeen
            /\ now < winStart[k] + W
            /\ winSeen[k] > N <=> resp.status = 429
            /\ winSeen[k] <= N => stages # <<"limiter">>

\* C3 witness: the eleventh login request of a window, made later in the
\* window than the first, is answered 429.
C3_Witness ==
    /\ Counted
    /\ req.path = "/auth/login"
    /\ winSeen[<<req.client, "login">>] = 11
    /\ winStart[<<req.client, "login">>] < now
    /\ resp.status = 429

\* The limiter keys of client c on endpoint e.
KeysOf(c, e) == {<<c, e, i>> : i \in 1..Len(RouteLimits(e))}

\* C4: handling a request of client c matched to route r changes no
\* counter and no window but those of (c, r), and the request is answered
\* 429 only when a counter of (c, r) itself is over its quota.
C4_Independent ==
    [][(req' # NoRequest /\ stages' # <<>> /\ stages'[1] = "limiter") =>
          LET own == KeysOf(req'.client, url_map(req'.path, req'.subpath).endpoint)
          IN  /\ \A k \in DOMAIN storage \ own :
                    /\ k \in DOMAIN storage'
                    /\ storage'[k] = storage[k]
                    /\ expirations'[k] = expirations[k]
              /\ DOMAIN storage' \subseteq DOMAIN storage \cup own
              /\ stages' = <<"limiter">> =>
                    \E k \in own : storage'[k] > RouteLimits(k[2])[k[3]].amount]_vars

\* C4 witness: the first client is over its login quota and has been
\* served /health meanwhile, and the second client's login is answered 200.
C4_Witness ==
    /\ <<Client1, "login", 1>> \in DOMAIN storage
    /\ storage[<<Client1, "login", 1>>] > Quota("login")
    /\ <<Client1, "health_check", 1>> \in DOMAIN storage
    /\ storage[<<Client1, "health_check", 1>>] <= Quota("health_check")
    /\ req.client = Client2
    /\ req.path = "/auth/login"
    /\ resp.status = 200

\* C6 (as claimed): GET /health and GET /metrics are never answered 429.
C6_HealthNeverLimited ==
    (req.path \in {"/health", "/metrics"}) => resp.status # 429

(***************************************************************************)
(* SpecLogin: a client posts to /auth/login every body there is: the two   *)
(* fields with user names and passwords right and wrong, a field or both   *)
(* missing, the JSON null, nothing at all, and what is no JSON.            *)
(***************************************************************************)
Usernames == {"admin", "user", "Admin", "USER", "nobody", ""}

Passwords == {ADMIN_PASSWORD, USER_PASSWORD, "wrongpassword", ""}

LoginForms ==
    {JsonObject({"username", "password"}, u, p) : u \in Usernames, p \in Passwords}
    \cup {JsonObject({"username"}, "admin", ""),
          JsonObject({"password"}, "", ADMIN_PASSWORD),
          JsonObject({}, "", ""),
          JsonObject({"user", "pass"}, "", ""),
          NullBody, NoBody, MalformedBody}

InitLogin == Warmed(Client1, "login", 0)

NextLogin ==
    \/ \E body \in LoginForms : LoginRequest(Client1, body, 0)
    \/ \E d \in {1, Minute} : AdvanceClock(d)

SpecLogin == InitLogin /\ [][NextLogin]_vars

\* The request handled last reached the login view.
LoginRan == req.path = "/auth/login" /\ stages = <<"limiter", "login">>

\* The body of the request handled last is a JSON object with both fields.
HasBothFields ==
    req.body.kind = "object" /\ {"username", "password"} \subseteq req.body.keys

\* The user name is a key of the credential store and the password is the
\* one the record's hash was made from.
CredentialsMatch(username, password) ==
    /\ username \in {"admin", "user"}
    /\ password = (IF username = "admin" THEN ADMIN_PASSWORD ELSE USER_PASSWORD)

\* C11: authenticate_user returns an identity exactly when the user name
\* is, letter for letter, a key of the credential store and the password
\* is the one of that record, and the identity is the record's; a login
\* with both fields is answered 200 with a token of that identity in that
\* case, and 401 without a token in every other.
C11_AuthenticateIff ==
    /\ \A u \in Usernames, p \in Passwords :
          LET id == authenticate_user(u, p)
          IN  /\ id # None <=> CredentialsMatch(u, p)
              /\ id # None => SameIdentity(id, u)
    /\ (LoginRan /\ HasBothFields) =>
          IF CredentialsMatch(req.body.username, req.body.password)
          THEN /\ resp.status = 200
               /\ SameIdentity(resp.body.user, req.body.username)
               /\ SameIdentity(verify_token(resp.body.token, now), req.body.username)
          ELSE /\ resp.status = 401
               /\ "token" \notin DOMAIN resp.body

\* C11 witness: the administrator's password with the user name in another
\* case is answered 401.
C11_Witness ==
    /\ LoginRan
    /\ HasBothFields
    /\ req.body.username = "Admin"
    /\ req.body.password = ADMIN_PASSWORD
    /\ resp.status = 401

\* The body of the request handled last lacks the username field or the
\* password field: it is an object without one of them, the JSON null, or
\* there is no body.
LacksField ==
    \/ req.body.kind = "object" /\ ~({"username", "password"} \subseteq req.body.keys)
    \/ req.body.kind \in {"null", "absent"}

\* C12 (as claimed): a login request whose body lacks the username or the
\* password field, the absent body included, is answered 400.
C12_MissingFields400 ==
    (LoginRan /\ LacksField) => resp.status = 400

\* A login request whose body is a JSON object without one of the two
\* fields, or the JSON null, is answered 400 and carries no token.
MissingFieldsOfObject ==
    (LoginRan /\ LacksField /\ req.body.kind # "absent") =>
        resp.status = 400 /\ "token" \notin DOMAIN resp.body

(***************************************************************************)
(* shared/auth.py: require_role.  The outcome of the decorator made for    *)
(* required_role, for a request with Authorization header h at time t: the *)
(* 401 or 403 it answers, or the payload it puts in request.user before it *)
(* calls the handler.                                                      *)
(***************************************************************************)
\* require_role that lets an administrator pass whatever role is required.
require_role_hierarchy(required_role, h, t) ==
    LET auth == require_auth(h, t)
    IN  IF ~auth.passed THEN auth
        ELSE IF auth.user.role # required_role /\ auth.user.role # "admin"
        THEN [passed |-> FALSE,
              response |-> Response(403,
                  [error |-> "Insufficient permissions",
                   message |-> <<"Role ", required_role, " required">>])]
        ELSE auth

require_role(required_role, h, t) ==
    LET token == get_token_from_header(h)
    IN  IF Falsy(token)
        THEN [passed |-> FALSE,
              response |-> Response(401, [error |-> "Authentication required",
                                          message |-> "No token provided"])]
        ELSE LET payload == verify_token(token, t)
             IN  IF payload = None
                 THEN [passed |-> FALSE,
                       response |-> Response(401,
                           [error |-> "Authentication failed",
                            message |-> "Invalid or expired token"])]
                 ELSE IF payload.role # required_role
                 THEN [passed |-> FALSE,
                       response |-> Response(403,
                           [error |-> "Insufficient permissions",
                            message |-> <<"Role ", required_role, " required">>])]
                 ELSE [passed |-> TRUE, user |-> payload]

(***************************************************************************)
(* SpecRole: a handler decorated with require_role, for each role there    *)
(* is and one there is not, is called with every kind of credential while  *)
(* the clock runs.  No route of the gateway carries the decorator, so the  *)
(* call goes to the decorated function itself.                             *)
(***************************************************************************)
RequiredRoles == {"admin", "user", "editor"}

GuardedPath == "(require_role)"

\* The decorated function is called for a request with header h.
RoleGuardedCall(c, required_role, h) ==
    LET guard == require_role(required_role, h, now)
    IN  /\ req' = [client |-> c, method |-> "GET", path |-> GuardedPath,
                   subpath |-> NoSubpath, authorization |-> h,
                   required_role |-> required_role]
        /\ resp' = IF guard.passed THEN Response(200, [user |-> guard.user])
                   ELSE guard.response
        /\ stages' = IF guard.passed THEN <<"require_role", "handler">>
                     ELSE <<"require_role">>
        /\ calls' = <<>>
        /\ UNCHANGED <<now, ticks, storage, expirations, winStart, winSeen>>
        /\ UNCHANGED backendVars

InitRole == Warmed(Client1, "login", 0)

NextRole ==
    \/ \E R \in RequiredRoles, h \in HeaderChoices : RoleGuardedCall(Client1, R, h)
    \/ \E d \in {1, Day - 1, Day} : AdvanceClock(d)

SpecRole == InitRole /\ [][NextRole]_vars

\* The handler behind require_role ran for the request handled last.
HandlerRan == stages = <<"require_role", "handler">>

\* C13: the handler behind require_role(R) runs exactly when the request
\* carries a valid bearer token whose role is R; a valid token of any other
\* role, the administrator's included, is answered 403 and the handler does
\* not run; a request without a valid token is answered 401, whatever R.
C13_RoleExact ==
    req.path = GuardedPath =>
        LET h == req.authorization
            R == req.required_role
        IN  /\ HandlerRan <=> (ValidBearer(h) /\ verify_token(h.rest, now).role = R)
            /\ HandlerRan => resp.status = 200 /\ resp.body.user = verify_token(h.rest, now)
            /\ (ValidBearer(h) /\ verify_token(h.rest, now).role # R) =>
                  /\ resp.status = 403
                  /\ resp.body.message = <<"Role ", R, " required">>
            /\ ~ValidBearer(h) =>
                  /\ resp.status = 401
                  /\ resp = require_auth(h, now).response

\* C13 witness: an administrator's valid token presented where the role
\* user is required is answered 403.
C13_Witness ==
    /\ req.path = GuardedPath
    /\ req.required_role = "user"
    /\ ValidBearer(req.authorization)
    /\ verify_token(req.authorization.rest, now).role = "admin"
    /\ resp.status = 403
    /\ ~HandlerRan

(***************************************************************************)
(* SpecProxy: a client with a valid token, or with none, sends requests of *)
(* every method to the four proxied services, with and without sub-path,   *)
(* body and query, and the backend answers, fails or keeps silent.  The    *)
(* client sends one request and lets a minute pass before the next.        *)
(***************************************************************************)
ProxyMethods == {"GET", "POST", "PUT", "DELETE"}

\* Method, body and query parameters of the requests sent.
RequestForms ==
    {<<"GET", NoBody, {}>>, <<"GET", NoBody, {"q"}>>,
     <<"POST", JsonObject({"name"}, "", ""), {}>>, <<"POST", NoBody, {}>>,
     <<"PUT", JsonObject({"name"}, "", ""), {"q"}>>,
     <<"DELETE", NoBody, {}>>,
     <<"PATCH", JsonObject({"name"}, "", ""), {}>>,
     <<"HEAD", NoBody, {}>>, <<"OPTIONS", NoBody, {}>>}

Subpaths == {NoSubpath, TrailingSlash, Subpath("42"), Subpath("42/versions")}

BackendOutcomes ==
    {BackendResponse(200, "ok"), BackendResponse(404, "missing"),
     BackendResponse(500, "boom"), BackendConnectionError, BackendOtherError,
     BackendSilent}

TokenHeaders == {NoHeader} \cup {Header("Bearer ", tk) : tk \in FreshTokens}

ProxyCall(c, form, service, subpath, h, backend) ==
    /\ req = NoRequest
    /\ MayRequest(c, ProxyEndpoint(service))
    /\ Serve(Request(c, form[1], ProxyPath(service), subpath, h,
                     "application/json", form[2], form[3]),
             Env(backend, NoProbes, 0))

InitProxy == Warmed(Client1, "assets_proxy", 0)

NextProxy ==
    \/ \E s \in Services, f \in RequestForms, p \in Subpaths,
          h \in TokenHeaders, b \in BackendOutcomes :
          ProxyCall(Client1, f, s, p, h, b)
    \/ AdvanceClock(Minute)

SpecProxy == InitProxy /\ [][NextProxy]_vars

\* The request handled last went to a proxied route.
ToProxy == req # NoRequest /\ req.path \in ProxyPaths

\* The proxy view ran for the request handled last.
ProxyRan ==
    ToProxy /\ stages = <<"limiter", "require_auth",
                          ProxyEndpoint(ServiceOfPath(req.path))>>

\* C14: the outbound call of a dispatched request goes to the service's
\* base URL followed by /api/<service>, and by /<sub-path> when the request
\* has one, with the method of the request, and its headers X-User-ID,
\* X-Username and X-User-Role carry the user_id, username and role of the
\* claims of the request's token.
C14_OutboundRequest ==
    (ToProxy /\ calls # <<>>) =>
        LET s == ServiceOfPath(req.path)
            call == calls[1]
            claims == verify_token(req.authorization.rest, now)
        IN  /\ call.url = IF req.subpath.form = "path"
                          THEN <<SERVICES[s], "/api/", s, "/", req.subpath.value>>
                          ELSE <<SERVICES[s], "/api/", s>>
            /\ call.method = req.method
            /\ ValidBearer(req.authorization)
            /\ call.headers.X_User_ID = str(claims.user_id)
            /\ call.headers.X_Username = claims.username
            /\ call.headers.X_User_Role = claims.role

\* C14 witness: GET /api/assets/42 with the token of the ordinary user is
\* forwarded to the assets service's /api/assets/42 with that user's
\* identity in the headers.
C14_Witness ==
    /\ ToProxy
    /\ req.method = "GET"
    /\ req.subpath = Subpath("42")
    /\ Len(calls) = 1
    /\ calls[1].url = <<"http://localhost:8001", "/api/", "assets", "/", "42">>
    /\ calls[1].headers.X_User_ID = "2"
    /\ calls[1].headers.X_Username = "user"
    /\ calls[1].headers.X_User_Role = "user"

\* The request handled last was to be forwarded: it reached the proxy view
\* with a method the view forwards and, for POST and PUT, a JSON body.
Dispatched ==
    /\ ProxyRan
    /\ req.method \in ProxyMethods
    /\ req.method \in {"POST", "PUT"} => req.body.kind = "object"

\* C15: a request that is dispatched makes exactly one outbound call,
\* whatever comes of the call, and no request makes more than one; when the
\* backend answers, with whatever status code, the response carries the
\* backend's status code, body and headers.
C15_RelayOnce ==
    ToProxy =>
        /\ Len(calls) <= 1
        /\ Dispatched =>
              /\ Len(calls) = 1
              /\ calls[1].backend.kind = "response" =>
                    /\ resp.status = calls[1].backend.status
                    /\ resp.body.content = calls[1].backend.content
                    /\ resp.body.headers = calls[1].backend.headers

\* C15 witness: the backend's 500 is relayed as it is, after one call.
C15_Witness ==
    /\ Dispatched
    /\ Len(calls) = 1
    /\ calls[1].backend = BackendResponse(500, "boom")
    /\ resp.status = 500
    /\ resp.body.content = "boom"

\* C16 (as claimed): when the backend cannot be reached, because the
\* connection fails or because the backend does not answer, the response
\* is 503 with a body that names the service.
C16_Unreachable503 ==
    (ToProxy /\ calls # <<>>
        /\ calls[1].backend.kind \in {"ConnectionError", "silent"}) =>
        /\ resp.status = 503
        /\ resp.body.error = <<ServiceOfPath(req.path), " service unavailable">>

\* A backend that cannot be connected to is answered 503 with a body that
\* names the service.
ConnectionError503 ==
    (ToProxy /\ calls # <<>> /\ calls[1].backend.kind = "ConnectionError") =>
        /\ resp.status = 503
        /\ resp.body.error = <<ServiceOfPath(req.path), " service unavailable">>

ExpectedPayload ==
    CASE req.method = "GET" -> [params |-> req.args]
      [] req.method \in {"POST", "PUT"} -> [json |-> req.body]
      [] OTHER -> None

\* The request handled last was forwarded with its method and payload.
Forwarded ==
    /\ ProxyRan
    /\ Len(calls) = 1
    /\ calls[1].method = req.method
    /\ calls[1].payload = ExpectedPayload

\* The request handled last has a valid token and one of the four methods,
\* with a JSON body when the method is POST or PUT.
Forwardable ==
    /\ ToProxy
    /\ ValidBearer(req.authorization)
    /\ req.method \in ProxyMethods
    /\ req.method \in {"POST", "PUT"} => req.body.kind = "object"

ProbeOutcomes ==
    {BackendResponse(200, "ok"), BackendResponse(503, "down"),
     BackendConnectionError, BackendSilent}

StatusCall(c, h, probes) ==
    /\ req = NoRequest
    /\ StatusRequest(c, h, probes)

InitStatus == Warmed(Client1, "service_status", 0)

NextStatus ==
    \/ \E h \in TokenHeaders, probes \in [Services -> ProbeOutcomes] :
          StatusCall(Client1, h, probes)
    \/ AdvanceClock(Minute)

SpecStatus == InitStatus /\ [][NextStatus]_vars

\* The service_status view ran for the request handled last.
StatusRan ==
    req.path = "/api/status"
    /\ stages = <<"limiter", "require_auth", "service_status">>

\* The probes of service s among the outbound calls.
ProbesOf(s) == {i \in 1..Len(calls) : calls[i].url = <<SERVICES[s], "/health">>}

\* What the status response has to say of a service whose probe met
\* `backend`.
ExpectedStatus(backend) ==
    IF backend.kind = "response"
    THEN IF backend.status = 200 THEN "healthy" ELSE "unhealthy"
    ELSE "unavailable"

\* C19: GET /api/status probes each registered service once, whatever comes
\* of the other probes, and answers 200 with one entry per registered
\* service: healthy when its probe returned 200, unhealthy when it returned
\* another status code, unavailable with the error when it did not
\* complete.
C19_StatusAggregates ==
    StatusRan =>
        /\ resp.status = 200
        /\ Len(calls) = Cardinality(Services)
        /\ DOMAIN resp.body.services = Services
        /\ \A s \in Services :
              /\ Cardinality(ProbesOf(s)) = 1
              /\ \A i \in ProbesOf(s) :
                    LET entry == resp.body.services[s]
                    IN  /\ calls[i].method = "GET"
                        /\ entry.status = ExpectedStatus(calls[i].backend)
                        /\ entry.status = "unavailable" <=> "error" \in DOMAIN entry

\* C19 witness: the first service cannot be connected to, the second
\* answers 503 and the last 200, and all three are reported.
C19_Witness ==
    /\ StatusRan
    /\ resp.status = 200
    /\ resp.body.services["assets"].status = "unavailable"
    /\ resp.body.services["files"].status = "unhealthy"
    /\ resp.body.services["search"].status = "healthy"

\* C20: GET /api/status ends with a response whatever services keep
\* silent, all of them included: each of its probes carries a timeout.
C20_StatusTerminates ==
    StatusRan =>
        /\ resp # NoResponse
        /\ \A i \in 1..Len(calls) : calls[i].timeout = ProbeTimeout
        /\ \A i \in 1..Len(calls) :
              calls[i].backend = BackendSilent =>
                  \E s \in Services :
                      /\ i \in ProbesOf(s)
                      /\ resp.body.services[s].error = "Timeout"

\* C20 witness: no service answers its probe, and the response reports the
\* four as unavailable.
C20_Witness ==
    /\ StatusRan
    /\ Len(calls) = Cardinality(Services)
    /\ \A i \in 1..Len(calls) : calls[i].backend = BackendSilent
    /\ resp.status = 200
    /\ \A s \in Services : resp.body.services[s].status = "unavailable"

\* The proxy view met a fault of its own while it handled the request: the
\* inbound body of a POST or PUT could not be read as JSON, or the outbound
\* call raised something that is no connection error.
LocalFault ==
    /\ ProxyRan
    /\ \/ req.method \in {"POST", "PUT"} /\ req.body.kind # "object"
       \/ calls # <<>> /\ calls[1].backend.kind = "RequestException"

\* C21: a failure inside the proxy view other than a backend connection
\* failure is answered 500 with the body {"error": "Internal server
\* error"} and nothing else; and every 500 the view answers that is not the
\* backend's own has this body.
C21_GenericError ==
    /\ LocalFault => resp = Response(500, [error |-> "Internal server error"])
    /\ (ProxyRan /\ resp.status = 500
           /\ ~(calls # <<>> /\ calls[1].backend.kind = "response")) =>
          resp.body = [error |-> "Internal server error"]

\* C21 witness: the outbound call raises an exception that is no connection
\* error, and the answer is the generic 500.
C21_Witness ==
    /\ ProxyRan
    /\ Len(calls) = 1
    /\ calls[1].backend = BackendOtherError
    /\ resp = Response(500, [error |-> "Internal server error"])

(***************************************************************************)
(* SpecCount: a client logs in, with good and bad bodies, and asks for     *)
(* /api/assets, with a token and without, while the backend answers or     *)
(* fails; on a route it has hardly used or one whose quota it is about to  *)
(* exhaust.                                                                *)
(***************************************************************************)
CountBodies ==
    {JsonObject({"username", "password"}, "admin", ADMIN_PASSWORD),
     JsonObject({"username", "password"}, "admin", "wrongpassword"),
     JsonObject({"username"}, "admin", ""),
     NoBody}

InitCount ==
    \E e \in {"login", "assets_proxy"}, warm \in 0..1 :
        Warmed(Client1, e, warm * (Quota(e) - 1))

NextCount ==
    \/ \E body \in CountBodies : LoginRequest(Client1, body, 0)
    \/ \E h \in TokenHeaders,
          b \in {BackendResponse(200, "ok"), BackendConnectionError, BackendOtherError} :
          ProxyRequest(Client1, "GET", "assets", NoSubpath, h, NoBody, b)
    \/ \E d \in {1, Minute} : AdvanceClock(d)

SpecCount == InitCount /\ [][NextCount]_vars

\* C22: handling a request matched to a route with a decorated limit adds
\* exactly one to the counter of the window of its (client, route), a
\* window that has ended starting again at one, whatever the answer:
\* 429, 401, 400, 503, 500 or 200.
C22_CountedOnce ==
    [][(req' # NoRequest /\ stages' # <<>> /\ stages'[1] = "limiter"
          /\ url_map(req'.path, req'.subpath).endpoint \in SingleLimit) =>
          LET e == url_map(req'.path, req'.subpath).endpoint
              k == <<req'.client, e, 1>>
          IN  /\ k \in DOMAIN storage'
              /\ storage'[k] = Hits(req'.client, e) + 1
              /\ resp'.status \in {200, 400, 401, 429, 500, 503}]_vars

\* C22 witness: the login answered 429 has been counted: the counter is one
\* over the quota.
C22_Witness ==
    /\ req.path = "/auth/login"
    /\ resp.status = 429
    /\ storage[<<Client1, "login", 1>>] = Quota("login") + 1

\* C23 (as claimed): the token of every successful login has exp equal to
\* iat plus 24 hours, also when the clock advances during generate_token.
C23_ExpIsIatPlusDay ==
    (req.path = "/auth/login" /\ resp.status = 200) =>
        resp.body.token.payload.exp
            = resp.body.token.payload.iat + TokenLifetimeHours * Hour

\* The lifetime of the token of a successful login is 24 hours less the
\* time the clock advanced between the two readings of generate_token.
LifetimeLessDrift ==
    (req.path = "/auth/login" /\ resp.status = 200) =>
        LET payload == resp.body.token.payload
        IN  /\ payload.iat = now
            /\ payload.exp <= payload.iat + TokenLifetimeHours * Hour
            /\ payload.exp >= payload.iat + TokenLifetimeHours * Hour - 1

(***************************************************************************)
(* SpecHeaders: a client with a valid token, or with none, asks the        *)
(* proxied services with headers of its own making beside Content-Type and *)
(* Authorization: identity headers, Host and Content-Length, or none.  The *)
(* client sends one request and lets a minute pass before the next.        *)
(***************************************************************************)
NoExtraHeaders == [name \in {} |-> ""]

ClientHeaders ==
    {NoExtraHeaders,
     [X_User_ID |-> "1", X_Username |-> "admin", X_User_Role |-> "admin"],
     [X_User_Role |-> "admin"],
     [Host |-> "gateway.example", Content_Length |-> "999", X_Forwarded_For |-> "10.9.9.9"]}

ContentTypes == {"application/json", "text/plain", NoContentType}

HeaderCall(c, service, subpath, h, content_type, extra) ==
    /\ req = NoRequest
    /\ MayRequest(c, ProxyEndpoint(service))
    /\ Serve(Request(c, "GET", ProxyPath(service), subpath, h, content_type,
                     NoBody, {}) @@ [headers |-> extra],
             Env(BackendResponse(200, "ok"), NoProbes, 0))

InitHeaders == Warmed(Client1, "assets_proxy", 0)

NextHeaders ==
    \/ \E s \in Services, p \in {NoSubpath, Subpath("42")}, h \in TokenHeaders,
          ct \in ContentTypes, extra \in ClientHeaders :
          HeaderCall(Client1, s, p, h, ct, extra)
    \/ AdvanceClock(Minute)

SpecHeaders == InitHeaders /\ [][NextHeaders]_vars

\* C24: the headers of the outbound call are Content-Type (the inbound
\* one, application/json when there is none), Authorization (the inbound
\* one), User-Agent, and X-User-ID, X-Username, X-User-Role from the claims
\* of the verified token, and no others: whatever other headers the client
\* sent, Host, Content-Length and identity headers of its own included, the
\* outbound headers are the same.
C24_OutboundHeaders ==
    (ToProxy /\ calls # <<>>) =>
        LET claims == verify_token(req.authorization.rest, now)
            out == calls[1].headers
        IN  /\ DOMAIN out = {"Content_Type", "Authorization", "User_Agent",
                             "X_User_ID", "X_Username", "X_User_Role"}
            /\ out.Content_Type = (IF req.content_type = NoContentType
                                   THEN "application/json" ELSE req.content_type)
            /\ out.Authorization = req.authorization
            /\ out.User_Agent = "API-Gateway"
            /\ out.X_User_ID = str(claims.user_id)
            /\ out.X_Username = claims.username
            /\ out.X_User_Role = claims.role

\* C24 witness: the ordinary user sends X-User-Role: admin of its own, and
\* the outbound call says user.
C24_Witness ==
    /\ ToProxy
    /\ "headers" \in DOMAIN req
    /\ "X_User_Role" \in DOMAIN req.headers
    /\ req.headers.X_User_Role = "admin"
    /\ Len(calls) = 1
    /\ calls[1].headers.X_User_Role = "user"
    /\ calls[1].headers.X_User_ID = "2"

\* C25 (as claimed): every request the proxy hands to a backend is answered:
\* the outbound call returns or raises, whatever the backend does.
C25_DispatchedAnswered ==
    (ToProxy /\ calls # <<>>) => resp # NoResponse

\* A dispatched request is answered whenever the backend answers or the
\* call raises; the call itself carries no timeout.
AnsweredUnlessSilent ==
    (ToProxy /\ calls # <<>>) =>
        /\ calls[1].timeout = NoTimeout
        /\ (resp = NoResponse) = (calls[1].backend.kind = "silent")

(***************************************************************************)
(* SpecAllRoutes: a client, with the token of either account or with none, *)
(* asks every route of the gateway, one request a minute: the login, the   *)
(* two token views, the proxied services in every form and with every      *)
(* outcome of the backend, the status view and the two public routes.      *)
(***************************************************************************)
AllHealthy == [s \in Services |-> BackendResponse(200, "ok")]

InitAllRoutes ==
    \E e \in {"assets_proxy", "service_status"}, warm \in 0..1 :
        Warmed(Client1, e, warm * (Quota(e) - 1))

NextAllRoutes ==
    \/ \E body \in CountBodies : req = NoRequest /\ LoginRequest(Client1, body, 0)
    \/ \E h \in TokenHeaders :
          req = NoRequest /\ AuthRequest(Client1, "POST", "/auth/verify", h)
    \/ \E h \in TokenHeaders :
          req = NoRequest /\ AuthRequest(Client1, "GET", "/auth/me", h)
    \/ \E s \in Services, f \in RequestForms, p \in {NoSubpath, Subpath("42")},
          h \in TokenHeaders, b \in BackendOutcomes :
          ProxyCall(Client1, f, s, p, h, b)
    \/ \E h \in TokenHeaders : StatusCall(Client1, h, AllHealthy)
    \/ \E path \in {"/health", "/metrics"} :
          req = NoRequest /\ PublicRequest(Client1, path)
    \/ AdvanceClock(Minute)

SpecAllRoutes == InitAllRoutes /\ [][NextAllRoutes]_vars

\* The token issued at the same times to the account of the other role.
OtherRoleToken(token) ==
    LET name == CHOOSE n \in DOMAIN HARDCODED_USERS :
                    HARDCODED_USERS[n].role # token.payload.role
    IN  generate_token_at(HARDCODED_USERS[name].user_id, name,
                          HARDCODED_USERS[name].role,
                          token.payload.exp - TokenLifetimeHours * Hour,
                          token.payload.iat)

\* An outbound call without what names the caller: the identity headers
\* and the bearer token.
Anonymous(call) ==
    [method |-> call.method, url |-> call.url, payload |-> call.payload,
     timeout |-> call.timeout,
     headers |-> IF call.headers = None THEN None
                 ELSE [Content_Type |-> call.headers.Content_Type,
                       User_Agent |-> call.headers.User_Agent]]

\* C26: no response of the gateway is 403; and a request with a valid token
\* that passes the router is answered with the status, and makes the
\* outbound calls (method, URL, body), that the same request would with the
\* token of the account of the other role, issued at the same time, from the
\* same state of the limiter and with the same backends.
C26_RoleBlind ==
    [][/\ resp'.status # 403
       /\ (/\ req' # NoRequest
           /\ stages' # <<>> /\ stages'[1] = "limiter"
           /\ req'.authorization.present
           /\ req'.authorization.scheme = "Bearer "
           /\ req'.authorization.rest # EmptyToken
           /\ verify_token(req'.authorization.rest, now) # None) =>
            LET e == url_map(req'.path, req'.subpath).endpoint
                twin == [req' EXCEPT !.authorization.rest = OtherRoleToken(@)]
                env == Env(IF calls' # <<>> THEN calls'[1].backend
                           ELSE BackendConnectionError,
                           AllHealthy, 0)
                lim == check_request_limit(storage, expirations, twin.client, e, now)
                p == Pipeline(e, twin, env, lim.limited, now)
            IN  /\ OtherRoleToken(req'.authorization.rest).payload.role
                       # req'.authorization.rest.payload.role
                /\ verify_token(twin.authorization.rest, now) # None
                /\ p.stages = stages'
                /\ p.result.response.status = resp'.status
                /\ Len(p.result.calls) = Len(calls')
                /\ \A i \in 1..Len(calls') :
                       Anonymous(p.result.calls[i]) = Anonymous(calls'[i])]_vars

\* C26 witness: the ordinary user's POST is forwarded and the backend's 200
\* relayed.
C26_Witness ==
    /\ ToProxy
    /\ req.method = "POST"
    /\ ValidBearer(req.authorization)
    /\ req.authorization.rest.payload.role = "user"
    /\ Len(calls) = 1
    /\ calls[1].headers.X_User_Role = "user"
    /\ resp.status = 200

(***************************************************************************)
(* The backend services.  Each request is handled in a thread of its own   *)
(* with a database session of its own: a query reads the table as it is    *)
(* when the query runs, db.session.commit() writes the columns the handler *)
(* assigned, and other threads run in between.  A handler that answers     *)
(* before it commits takes one step; one that queries and then commits     *)
(* takes two.                                                              *)
(***************************************************************************)
MaxRows == 2

\* The server's threads for requests: two requests are handled at a time.
RequestThreads == {<<"request", 1>>, <<"request", 2>>}

\* A thread the server can give to a new request: the first when both are
\* idle.
Free(t) ==
    /\ t \in RequestThreads \ DOMAIN threads
    /\ DOMAIN threads \cap RequestThreads = {} => t[2] = 1

\* A response: its status, and of its body the ids listed.
Answer(service, op, id, status, body) ==
    [service |-> service, op |-> op, id |-> id, status |-> status, body |-> body]

\* The handler in thread t answers and ends.
Return(t, service, op, id, status, body) ==
    /\ answer' = Answer(service, op, id, status, body)
    /\ threads' = Drop(threads, {t})

\* The handler in thread t has queried and goes on to its commit.
Continue(t, service, op, id, data, loaded) ==
    /\ threads' = Put(threads, t, [service |-> service, op |-> op, id |-> id,
                                   data |-> data, loaded |-> loaded])
    /\ UNCHANGED answer

\* The commit of a session that loaded the row as `loaded` and assigned the
\* columns of `dirty`, writing the whole row as the session holds it.
flush_loaded_row(table, id, loaded, dirty) ==
    [table EXCEPT ![id] = dirty @@ loaded]

\* The commit of a session that loaded the row as `loaded` and assigned the
\* columns of `dirty`: UPDATE ... SET <the assigned columns> WHERE id = :id.
flush(table, id, loaded, dirty) ==
    [table EXCEPT ![id] = dirty @@ @]

\* Query.filter_by(id=id, is_active=True).first()
first_active(table, id) ==
    IF id \in 1..Len(table) /\ table[id].is_active THEN table[id] ELSE None

\* Query.filter(is_active == True): the ids of the rows listed.
all_active(table) == {id \in 1..Len(table) : table[id].is_active}

(***************************************************************************)
(* assets-service/app.py                                                   *)
(***************************************************************************)
AssetNames == {"a", "b"}

NoFields == [field \in {} |-> ""]

\* Asset(name=data['name'], ...), is_active by its default.  Of a row, the
\* columns that queries filter on are kept: name and is_active.
Asset(data) == [name |-> data.name, is_active |-> TRUE]

\* The requests whose rows are not yet inserted.
Inserting(service) ==
    {t \in DOMAIN threads : threads[t].service = service /\ threads[t].id = 0}

get_assets(t) ==
    /\ Free(t)
    /\ answer' = Answer("assets", "get_assets", 0, 200, all_active(assets))
    /\ UNCHANGED <<assets, files, transcodes, threads, gatewayVars>>

get_asset(t, asset_id) ==
    /\ Free(t)
    /\ LET asset == first_active(assets, asset_id)
       IN  answer' = IF asset = None
                     THEN Answer("assets", "get_asset", asset_id, 404, {})
                     ELSE Answer("assets", "get_asset", asset_id, 200, {})
    /\ UNCHANGED <<assets, files, transcodes, threads, gatewayVars>>

\* create_asset up to the insert: the body is checked and the table is
\* queried for an active asset of the name.
create_asset(t, data) ==
    /\ Free(t)
    /\ Len(assets) + Cardinality(Inserting("assets")) < MaxRows
    /\ IF data = NoFields \/ "name" \notin DOMAIN data
       THEN /\ answer' = Answer("assets", "create_asset", 0, 400, {})
            /\ UNCHANGED threads
       ELSE IF \E id \in all_active(assets) : assets[id].name = data.name
       THEN /\ answer' = Answer("assets", "create_asset", 0, 409, {})
            /\ UNCHANGED threads
       ELSE Continue(t, "assets", "create_asset", 0, data, None)
    /\ UNCHANGED <<assets, files, transcodes, gatewayVars>>

\* The queries of update_asset, delete_asset and add_tags: 404 unless an
\* active row has the id.
find_asset(t, op, asset_id, data) ==
    /\ Free(t)
    /\ LET asset == first_active(assets, asset_id)
       IN  IF asset = None
           THEN /\ answer' = Answer("assets", op, asset_id, 404, {})
                /\ UNCHANGED threads
           ELSE Continue(t, "assets", op, asset_id, data, asset)
    /\ UNCHANGED <<assets, files, transcodes, gatewayVars>>

update_asset(t, asset_id, data) == find_asset(t, "update_asset", asset_id, data)

delete_asset(t, asset_id) == find_asset(t, "delete_asset", asset_id, NoFields)

add_tags(t, asset_id, data) == find_asset(t, "add_tags", asset_id, data)

\* db.session.add(asset); db.session.commit() and the 201 of create_asset.
create_asset_commit(t) ==
    /\ t \in DOMAIN threads
    /\ threads[t].service = "assets" /\ threads[t].op = "create_asset"
    /\ assets' = Append(assets, Asset(threads[t].data))
    /\ Return(t, "assets", "create_asset", Len(assets) + 1, 201, {})
    /\ UNCHANGED <<files, transcodes, gatewayVars>>

\* The assignments and db.session.commit() of update_asset, delete_asset
\* and add_tags, and their 200.
asset_commit(t) ==
    /\ t \in DOMAIN threads
    /\ threads[t].service = "assets"
    /\ threads[t].op \in {"update_asset", "delete_asset", "add_tags"}
    /\ LET th == threads[t]
           dirty == IF th.op = "update_asset"
                    THEN [f \in DOMAIN th.data \cap {"name"} |-> th.data[f]]
                    ELSE IF th.op = "delete_asset"
                    THEN [is_active |-> FALSE]
                    ELSE NoFields
       IN  /\ assets' = flush(assets, th.id, th.loaded, dirty)
           /\ Return(t, "assets", th.op, th.id, 200, {})
    /\ UNCHANGED <<files, transcodes, gatewayVars>>

(***************************************************************************)
(* files-service/app.py                                                    *)
(***************************************************************************)
S3DeleteOutcomes == {"deleted", "ClientError", "raised"}

\* upload_file: the object is put in S3, then the row inserted.
upload_file(t, uploaded) ==
    /\ Free(t)
    /\ Len(files) < MaxRows
    /\ IF uploaded
       THEN /\ files' = Append(files, [is_active |-> TRUE, in_s3 |-> TRUE])
            /\ answer' = Answer("files", "upload_file", Len(files) + 1, 201, {})
       ELSE /\ files' = files
            /\ answer' = Answer("files", "upload_file", 0, 500, {})
    /\ UNCHANGED <<assets, transcodes, threads, gatewayVars>>

get_files(t) ==
    /\ Free(t)
    /\ answer' = Answer("files", "get_files", 0, 200, all_active(files))
    /\ UNCHANGED <<assets, files, transcodes, threads, gatewayVars>>

get_file(t, file_id) ==
    /\ Free(t)
    /\ LET file_record == first_active(files, file_id)
       IN  answer' = IF file_record = None
                     THEN Answer("files", "get_file", file_id, 404, {})
                     ELSE Answer("files", "get_file", file_id, 200, {})
    /\ UNCHANGED <<assets, files, transcodes, threads, gatewayVars>>

download_file(t, file_id) ==
    /\ Free(t)
    /\ LET file_record == first_active(files, file_id)
       IN  answer' = IF file_record = None \/ ~file_record.in_s3
                     THEN Answer("files", "download_file", file_id, 404, {})
                     ELSE Answer("files", "download_file", file_id, 200, {})
    /\ UNCHANGED <<assets, files, transcodes, threads, gatewayVars>>

delete_file(t, file_id) ==
    /\ Free(t)
    /\ LET file_record == first_active(files, file_id)
       IN  IF file_record = None
           THEN /\ answer' = Answer("files", "delete_file", file_id, 404, {})
                /\ UNCHANGED threads
           ELSE Continue(t, "files", "delete_file", file_id, NoFields, file_record)
    /\ UNCHANGED <<assets, files, transcodes, gatewayVars>>

\* The soft delete is committed, then the object is deleted from S3:
\* delete_from_s3 swallows a ClientError, and any other exception makes the
\* handler answer 500 after the commit.
delete_file_commit(t, s3) ==
    /\ t \in DOMAIN threads
    /\ threads[t].service = "files" /\ threads[t].op = "delete_file"
    /\ LET th == threads[t]
           committed == flush(files, th.id, th.loaded, [is_active |-> FALSE])
       IN  /\ files' = IF s3 = "deleted"
                       THEN [committed EXCEPT ![th.id].in_s3 = FALSE]
                       ELSE committed
           /\ Return(t, "files", "delete_file", th.id,
                     IF s3 = "raised" THEN 500 ELSE 200, {})
    /\ UNCHANGED <<assets, transcodes, gatewayVars>>

(***************************************************************************)
(* SpecStore: clients create, read, change and delete assets and files,    *)
(* two requests being handled at a time.                                   *)
(***************************************************************************)
AssetBodies == {[name |-> n] : n \in AssetNames} \cup {NoFields}

TagBodies == {[tags |-> {"t"}]}

\* No request has been made of the service: the two services share no
\* state, and a behaviour exercises one of them.
Unused(service) ==
    /\ (IF service = "assets" THEN assets ELSE files) = <<>>
    /\ \A t \in DOMAIN threads : threads[t].service # service
    /\ answer # None => answer.service # service

InitStore == Warmed(Client1, "login", 0)

NextStore ==
    \/ \E t \in RequestThreads : Unused("files") /\ get_assets(t)
    \/ \E t \in RequestThreads, id \in 1..MaxRows : Unused("files") /\ get_asset(t, id)
    \/ \E t \in RequestThreads, data \in AssetBodies :
          Unused("files") /\ create_asset(t, data)
    \/ \E t \in RequestThreads, id \in 1..MaxRows, data \in AssetBodies :
          Unused("files") /\ update_asset(t, id, data)
    \/ \E t \in RequestThreads, id \in 1..MaxRows : Unused("files") /\ delete_asset(t, id)
    \/ \E t \in RequestThreads, id \in 1..MaxRows, data \in TagBodies :
          Unused("files") /\ add_tags(t, id, data)
    \/ \E t \in RequestThreads : create_asset_commit(t)
    \/ \E t \in RequestThreads : asset_commit(t)
    \/ \E t \in RequestThreads, uploaded \in BOOLEAN :
          Unused("assets") /\ upload_file(t, uploaded)
    \/ \E t \in RequestThreads : Unused("assets") /\ get_files(t)
    \/ \E t \in RequestThreads, id \in 1..MaxRows : Unused("assets") /\ get_file(t, id)
    \/ \E t \in RequestThreads, id \in 1..MaxRows : Unused("assets") /\ download_file(t, id)
    \/ \E t \in RequestThreads, id \in 1..MaxRows : Unused("assets") /\ delete_file(t, id)
    \/ \E t \in RequestThreads, s3 \in S3DeleteOutcomes : delete_file_commit(t, s3)

SpecStore == InitStore /\ [][NextStore]_vars

\* C30 (as claimed): no two active assets have the same name.
C30_UniqueActiveNames ==
    \A i, k \in all_active(assets) : assets[i].name = assets[k].name => i = k

\* A response is given in this step.  (A step that repeats the response
\* given last, and changes nothing else, is no step of a behaviour.)
Answered == answer' # answer

\* The row of the id is soft-deleted: its delete has committed.
Deleted(table, id) == id \in 1..Len(table) /\ ~table[id].is_active

ByIdOps ==
    [assets |-> {"get_asset", "update_asset", "delete_asset", "add_tags"},
     files |-> {"get_file", "download_file", "delete_file"}]

ListOps == [assets |-> "get_assets", files |-> "get_files"]

\* What C27 asks of a step for the table of a service: a soft-deleted row
\* stays soft-deleted; a request by id that arrives when the row is
\* soft-deleted is answered 404 at once and goes no further; and a list
\* answered then omits the row.
StaysDeleted(service, table, table_after) ==
    \A id \in 1..Len(table) :
        Deleted(table, id) =>
            /\ Deleted(table_after, id)
            /\ \A t \in DOMAIN threads' \ DOMAIN threads :
                   ~(threads'[t].service = service /\ threads'[t].id = id)
            /\ (/\ Answered
                /\ threads' = threads
                /\ answer'.service = service) =>
                   /\ (answer'.op \in ByIdOps[service] /\ answer'.id = id) =>
                          answer'.status = 404
                   /\ answer'.op = ListOps[service] => id \notin answer'.body

\* C27: once delete_asset or delete_file has committed for an id, no step
\* makes the row active again; every get, update, tag-addition, download or
\* delete of that id that arrives afterwards is answered 404, and every
\* list answered afterwards omits the id.
C27_SoftDeleted ==
    [][/\ StaysDeleted("assets", assets, assets')
       /\ StaysDeleted("files", files, files')]_vars

\* C27 witness: asset 1 is soft-deleted, another asset is not,
\* and an update of asset 1 has just been answered 404.
C27_Witness ==
    /\ Deleted(assets, 1)
    /\ Len(assets) = 2 /\ assets[2].is_active
    /\ answer # None
    /\ answer.service = "assets" /\ answer.op = "update_asset"
    /\ answer.id = 1 /\ answer.status = 404

(***************************************************************************)
(* transcode-service/app.py.  create_transcode inserts the job and starts  *)
(* a thread that runs process_transcode; the worker and the request        *)
(* handlers have sessions of their own, and each commit of the worker is a *)
(* step.                                                                   *)
(***************************************************************************)
MaxJobs == 1

SUPPORTED_FORMATS ==
    [video |-> {"mp4", "avi", "mov", "mkv", "webm"},
     audio |-> {"mp3", "wav", "aac", "ogg", "flac"},
     image |-> {"jpg", "png", "gif", "webp"}]

\* For format names in lower case.
is_supported_format(format_name) ==
    \E category \in DOMAIN SUPPORTED_FORMATS : format_name \in SUPPORTED_FORMATS[category]

OUTPUT_FOLDER == "./transcoded"

\* Python's range(start, stop, step), for a positive step.
RECURSIVE range(_, _, _)
range(start, stop, step) ==
    IF start >= stop THEN <<>> ELSE <<start>> \o range(start + step, stop, step)

\* The values the worker's loop gives to progress.
ProgressValues == range(0, 101, 10)

\* Transcode(asset_id=..., target_format=..., status='pending'), progress
\* and output_path by their defaults.
Transcode(target_format) ==
    [status |-> "pending", progress |-> 0, output_path |-> None,
     target_format |-> target_format]

Worker(transcode_id) == <<"worker", transcode_id>>

\* What the worker assigns when its loop has ended, but for output_path.
completed_without_output(transcode_id, target_format) ==
    [status |-> "completed", progress |-> 100]

\* What the worker assigns when its loop has ended.
completed(transcode_id, target_format) ==
    [status |-> "completed", progress |-> 100,
     output_path |-> <<OUTPUT_FOLDER, "/transcoded_", transcode_id, ".", target_format>>]

TranscodeBodies ==
    {[asset_id |-> 1, target_format |-> "mp4"],
     [asset_id |-> 1, target_format |-> "exe"],
     [asset_id |-> 1]}

\* create_transcode: the job is inserted as pending and its worker started.
create_transcode(t, data) ==
    /\ Free(t)
    /\ Len(transcodes) < MaxJobs
    /\ IF "asset_id" \notin DOMAIN data \/ "target_format" \notin DOMAIN data
       THEN /\ answer' = Answer("transcode", "create_transcode", 0, 400, {})
            /\ UNCHANGED <<transcodes, threads>>
       ELSE IF ~is_supported_format(data.target_format)
       THEN /\ answer' = Answer("transcode", "create_transcode", 0, 400, {})
            /\ UNCHANGED <<transcodes, threads>>
       ELSE LET transcode_id == Len(transcodes) + 1
            IN  /\ transcodes' = Append(transcodes, Transcode(data.target_format))
                /\ threads' = Put(threads, Worker(transcode_id),
                                  [service |-> "transcode", op |-> "process_transcode",
                                   id |-> transcode_id, pc |-> "start", i |-> 0])
                /\ answer' = Answer("transcode", "create_transcode", transcode_id,
                                    201, {})
    /\ UNCHANGED <<assets, files, gatewayVars>>

get_transcode(t, transcode_id) ==
    /\ Free(t)
    /\ answer' = IF transcode_id \in 1..Len(transcodes)
                 THEN Answer("transcode", "get_transcode", transcode_id, 200, {})
                 ELSE Answer("transcode", "get_transcode", transcode_id, 404, {})
    /\ UNCHANGED <<assets, files, transcodes, threads, gatewayVars>>

\* cancel_transcode up to its commit: the job is read and its status
\* looked at (of the row it loaded, the handler reads nothing else).
cancel_transcode(t, transcode_id) ==
    /\ Free(t)
    /\ IF transcode_id \notin 1..Len(transcodes)
       THEN /\ answer' = Answer("transcode", "cancel_transcode", transcode_id, 404, {})
            /\ UNCHANGED threads
       ELSE IF transcodes[transcode_id].status \in {"completed", "failed"}
       THEN /\ answer' = Answer("transcode", "cancel_transcode", transcode_id, 400, {})
            /\ UNCHANGED threads
       ELSE Continue(t, "transcode", "cancel_transcode", transcode_id, NoFields,
                     [status |-> transcodes[transcode_id].status])
    /\ UNCHANGED <<assets, files, transcodes, gatewayVars>>

\* transcode.status = 'cancelled'; db.session.commit() and the 200.
cancel_transcode_commit(t) ==
    /\ t \in DOMAIN threads
    /\ threads[t].service = "transcode" /\ threads[t].op = "cancel_transcode"
    /\ transcodes' = flush(transcodes, threads[t].id, threads[t].loaded,
                           [status |-> "cancelled"])
    /\ Return(t, "transcode", "cancel_transcode", threads[t].id, 200, {})
    /\ UNCHANGED <<assets, files, gatewayVars>>

\* A step of the worker of a job, up to its next commit; `raised` when the
\* step raises instead, which takes the worker to its except clause.  The
\* worker's session holds the row it loaded at the start and writes the
\* columns assigned since its last commit.
process_transcode(transcode_id, raised) ==
    LET w == Worker(transcode_id)
        th == threads[w]
        row == transcodes[transcode_id]
    IN  /\ w \in DOMAIN threads
        /\ UNCHANGED <<assets, files, answer, gatewayVars>>
        /\ IF th.pc = "except"
           THEN /\ transcodes' = flush(transcodes, transcode_id, row,
                                       [status |-> "failed"])
                /\ threads' = Drop(threads, {w})
           ELSE IF raised
           THEN /\ threads' = Put(threads, w, [th EXCEPT !.pc = "except"])
                /\ UNCHANGED transcodes
           ELSE IF th.pc = "start"
           THEN /\ transcodes' = flush(transcodes, transcode_id, row,
                                       [status |-> "processing", progress |-> 0])
                /\ threads' = Put(threads, w, [th EXCEPT !.pc = "loop", !.i = 1])
           ELSE IF th.pc = "loop"
           THEN /\ transcodes' = flush(transcodes, transcode_id, row,
                                       [progress |-> ProgressValues[th.i]])
                /\ threads' = Put(threads, w,
                                  IF th.i < Len(ProgressValues)
                                  THEN [th EXCEPT !.i = @ + 1]
                                  ELSE [th EXCEPT !.pc = "finish"])
           ELSE /\ transcodes' = flush(transcodes, transcode_id, row,
                                       completed(transcode_id, row.target_format))
                /\ threads' = Drop(threads, {w})

(***************************************************************************)
(* SpecTranscode: jobs are created, cancelled and looked at while their    *)
(* workers run.  SpecTranscodeFair: the same, with every worker thread     *)
(* scheduled again and again until it ends.                                *)
(***************************************************************************)
InitTranscode == Warmed(Client1, "login", 0)

\* The client sends one request at a time; the workers run beside it.
OneRequest(t) == t = <<"request", 1>>

NextTranscode ==
    \/ \E t \in RequestThreads, data \in TranscodeBodies :
          OneRequest(t) /\ create_transcode(t, data)
    \/ \E t \in RequestThreads, id \in 1..MaxJobs :
          OneRequest(t) /\ get_transcode(t, id)
    \/ \E t \in RequestThreads, id \in 1..MaxJobs :
          OneRequest(t) /\ cancel_transcode(t, id)
    \/ \E t \in RequestThreads : cancel_transcode_commit(t)
    \/ \E id \in 1..MaxJobs, raised \in BOOLEAN : process_transcode(id, raised)

SpecTranscode == InitTranscode /\ [][NextTranscode]_vars

SpecTranscodeFair ==
    /\ InitTranscode
    /\ [][NextTranscode]_vars
    /\ \A id \in 1..MaxJobs :
           WF_vars(\E raised \in BOOLEAN : process_transcode(id, raised))

\* C28 (as claimed): a job whose status is 'cancelled' keeps that status,
\* and its progress and output_path are written no more.
C28_CancelledStays ==
    [][\A id \in 1..Len(transcodes) :
           transcodes[id].status = "cancelled" =>
               /\ transcodes'[id].status = "cancelled"
               /\ transcodes'[id].progress = transcodes[id].progress
               /\ transcodes'[id].output_path = transcodes[id].output_path]_vars

\* cancel_transcode itself writes the status only, and never the status of
\* a job it read as completed or failed.
CancelWritesStatusOnly ==
    [][\A t \in DOMAIN threads \ DOMAIN threads' :
           threads[t].op = "cancel_transcode" =>
               /\ threads[t].loaded.status \notin {"completed", "failed"}
               /\ transcodes' = [transcodes EXCEPT ![threads[t].id].status = "cancelled"]]_vars

====
